---- MODULE Spec2Model ----
(***************************************************************************)
(* CashCompass backend: the record store (goals, transactions,             *)
(* notifications) and the route handlers that read and write it, each      *)
(* handler running for an authenticated user.                              *)
(*                                                                         *)
(* Amounts are whole currency units.  An optional request field is a set   *)
(* holding at most one value ({} is "undefined").                          *)
(***************************************************************************)
EXTENDS Integers, Sequences, FiniteSets, TLC

VARIABLES goals, nextGoalId, transactions, nextTxId, notifications,
          nextNotifId, inflight, res, served, ledger, investments, server,
          users, nextInvId

vars == <<goals, nextGoalId, transactions, nextTxId, notifications,
          nextNotifId, inflight, res, served, ledger, investments, server, users,
                   nextInvId>>

(* ---------------------------- bounds ----------------------------------- *)

\* requests served in one behaviour
MaxRequests == 3
\* largest stored amount the model follows
MaxAmount == 1200000
\* add-funds requests that may be between their read and their save
MaxInflight == 2
\* stored investments the investment roll-up is checked over
MaxInv == 3

\* the authenticated identities (req.user.id)
Users == {"A", "B"}

\* an id no record has (a request naming a record that does not exist)
NoId == 0

Statuses == {"active", "completed", "cancelled"}

\* the server process: dbConnected, and whether connectDB() is still pending
Connected == [dbConnected |-> TRUE, pending |-> FALSE]

(* ------------------------- request values ------------------------------ *)

\* A JSON body value that reaches express-validator's isFloat: a number, or
\* a string of decimal digits (the validator checks the text of the value and
\* leaves the value as it was sent).
Num(n) == [t |-> "num", v |-> n]
Str(n) == [t |-> "str", v |-> n]

RECURSIVE NumDigits(_)
\* length of the decimal text of n >= 0
NumDigits(n) == IF n < 10 THEN 1 ELSE 1 + NumDigits(n \div 10)

RECURSIVE Pow10(_)
Pow10(k) == IF k = 0 THEN 1 ELSE 10 * Pow10(k - 1)

\* isFloat without its min option
isFloatMutantNoMin(field, min) == field # {}

\* express-validator isFloat({ min }) on an optional field: undefined fails,
\* a number or a numeric string passes when its value is >= min
isFloatMin(field, min) == field # {} /\ \A x \in field : x.v >= min

\* .optional().isFloat({ min })
optionalIsFloatMin(field, min) == field = {} \/ isFloatMin(field, min)

\* .trim().notEmpty(): undefined and the empty text both fail
notEmpty(field) == field # {} /\ \A x \in field : x # ""

\* .optional().trim().notEmpty()
optionalNotEmpty(field) == field = {} \/ notEmpty(field)

\* = written for +=
jsAddMutantAssign(a, b) == IF b = {} THEN a ELSE (CHOOSE x \in b : TRUE).v

\* JavaScript (a || 0) + (b || 0) followed by Mongoose's cast of the result to
\* Number: the stored number a, the request value b.  A number adds; a
\* non-empty string makes + a concatenation of the two decimal texts.
jsAdd(a, b) ==
    IF b = {} THEN a
    ELSE LET x == CHOOSE y \in b : TRUE IN
         IF x.t = "num" THEN a + x.v
         ELSE IF x.v = 0 THEN a * 10     \* "0" is a non-empty string
         ELSE a * Pow10(NumDigits(x.v)) + x.v

\* Mongoose casts a numeric string to its number when it stores a Number path
castNumber(x) == x.v

\* the value of an optional field that is present
The(field) == CHOOSE x \in field : TRUE

(* ------------------------------- dates --------------------------------- *)

\* the moment the requests are served at (the server's clock and time zone
\* are UTC)
NowYear == 2026
NowMonth == 2
NowDay == 14
NowHour == 9

\* new Date(year, month, day) with the month counted from 1 here: a month
\* below 1 or above 12 rolls into the neighbouring year.  A date is the
\* number yyyymmddhh, so that dates compare as the numbers do, and new
\* Date(y, m, d) is the midnight that starts the day.
newDate(y, m, d) ==
    (((y + ((m - 1) \div 12)) * 10000) + ((((m - 1) % 12) + 1) * 100) + d) * 100

\* new Date() / Date.now
Today == newDate(NowYear, NowMonth, NowDay) + NowHour

\* getFullYear(), getMonth() (counted from 1 here) and getDate()
getFullYear(date) == date \div 1000000
getMonth(date) == (date \div 10000) % 100
getDate(date) == (date \div 100) % 100

(* ------------------------------ goals ---------------------------------- *)

\* the fixture of POST /goals/seed
sampleGoals ==
    << [targetAmount |-> 100000,  currentAmount |-> 45000],
       [targetAmount |-> 50000,   currentAmount |-> 20000],
       [targetAmount |-> 500000,  currentAmount |-> 120000],
       [targetAmount |-> 1000000, currentAmount |-> 300000] >>

\* Goal.find({ _id, user }) / findOne: the ids of the caller's documents
goalMatch(u, id) == id \in DOMAIN goals /\ goals[id].user = u

\* the answer to the last request: its route and caller, the HTTP status, the
\* stored records the body carries (docs), and a report body with the query
\* it answers
NoBody == << >>
Respond(route, u, status, docs) ==
    res' = [route |-> route, user |-> u, status |-> status, docs |-> docs,
            query |-> NoBody, body |-> NoBody]
RespondReport(route, u, query, body) ==
    res' = [route |-> route, user |-> u, status |-> 200, docs |-> {},
            query |-> query, body |-> body]

Serve == served < MaxRequests /\ served' = served + 1

\* Observer, not program state: for each stored goal, the currentAmount it was
\* created with or last set to by an update, and the amounts of the add-funds
\* requests answered 200 on it since then, in order.
Opened(amount) == [start |-> amount, amounts |-> << >>]
AmountValue(amount) == (CHOOSE x \in amount : TRUE).v

GoalView(id, g) == [id |-> id, user |-> g.user, targetAmount |-> g.targetAmount,
                    currentAmount |-> g.currentAmount, status |-> g.status]

\* what a goal request body may carry: the well-formed bodies, and one body
\* for each way a field can be missing or malformed
GoalBodies ==
    [name : {{"g"}}, category : {{"c"}},
     target : {{}, {Num(12)}, {Num(15)}},
     current : {{}, {Num(0)}, {Num(12)}}]
    \cup {[name |-> {}, category |-> {"c"}, target |-> {Num(15)}, current |-> {}],
          [name |-> {""}, category |-> {"c"}, target |-> {Num(12)}, current |-> {}],
          [name |-> {"g"}, category |-> {}, target |-> {Num(12)}, current |-> {}],
          [name |-> {"g"}, category |-> {"c"}, target |-> {Num(-1)}, current |-> {}],
          [name |-> {"g"}, category |-> {"c"}, target |-> {Num(12)},
           current |-> {Num(-1)}]}

\* GET /goals
ListGoals(u) ==
    /\ Serve
    /\ Respond("goals.list", u, 200,
               {GoalView(id, goals[id]) : id \in {i \in DOMAIN goals : goals[i].user = u}})
    /\ UNCHANGED <<goals, nextGoalId, transactions, nextTxId, notifications,
                   nextNotifId, inflight, ledger, investments, server, users,
                   nextInvId>>

\* POST /goals
CreateGoal(u, b) ==
    /\ Serve
    /\ IF /\ notEmpty(b.name)
          /\ isFloatMin(b.target, 0)
          /\ optionalIsFloatMin(b.current, 0)
          /\ notEmpty(b.category)
       THEN LET doc == [user |-> u,
                        targetAmount |-> castNumber(CHOOSE x \in b.target : TRUE),
                        currentAmount |-> IF b.current = {} THEN 0
                                          ELSE castNumber(CHOOSE x \in b.current : TRUE),
                        status |-> "active"]
            IN /\ goals' = (nextGoalId :> doc) @@ goals
               /\ ledger' = (nextGoalId :> Opened(doc.currentAmount)) @@ ledger
               /\ nextGoalId' = nextGoalId + 1
               /\ Respond("goals.create", u, 201, {GoalView(nextGoalId, doc)})
       ELSE /\ Respond("goals.create", u, 400, {})
            /\ UNCHANGED <<goals, nextGoalId, ledger>>
    /\ UNCHANGED <<transactions, nextTxId, notifications, nextNotifId, inflight,
                   investments, server, users,
                   nextInvId>>

\* PUT /goals/:id
UpdateGoal(u, id, b) ==
    /\ Serve
    /\ IF ~ ( /\ optionalNotEmpty(b.name)
              /\ optionalIsFloatMin(b.target, 0)
              /\ optionalIsFloatMin(b.current, 0) )
       THEN /\ Respond("goals.update", u, 400, {})
            /\ UNCHANGED <<goals, ledger>>
       ELSE IF ~ goalMatch(u, id)
       THEN /\ Respond("goals.update", u, 404, {})
            /\ UNCHANGED <<goals, ledger>>
       ELSE LET g == goals[id]
                doc == [g EXCEPT
                          !.targetAmount = IF b.target = {} THEN @
                                           ELSE castNumber(CHOOSE x \in b.target : TRUE),
                          !.currentAmount = IF b.current = {} THEN @
                                            ELSE castNumber(CHOOSE x \in b.current : TRUE)]
            IN /\ goals' = [goals EXCEPT ![id] = doc]
               /\ ledger' = [ledger EXCEPT ![id] = Opened(doc.currentAmount)]
               /\ Respond("goals.update", u, 200, {GoalView(id, doc)})
    /\ UNCHANGED <<nextGoalId, transactions, nextTxId, notifications, nextNotifId,
                   inflight, investments, server, users,
                   nextInvId>>

\* DELETE /goals/:id
DeleteGoal(u, id) ==
    /\ Serve
    /\ IF goalMatch(u, id)
       THEN /\ goals' = [i \in DOMAIN goals \ {id} |-> goals[i]]
            /\ ledger' = [i \in DOMAIN goals \ {id} |-> ledger[i]]
            /\ Respond("goals.delete", u, 200, {})
       ELSE /\ Respond("goals.delete", u, 404, {})
            /\ UNCHANGED <<goals, ledger>>
    /\ UNCHANGED <<nextGoalId, transactions, nextTxId, notifications, nextNotifId,
                   inflight, investments, server, users,
                   nextInvId>>

\* > written for >=
addFundsApplyMutantStrict(g, amount) ==
    LET sum == jsAdd(g.currentAmount, amount)
    IN [g EXCEPT !.currentAmount = sum,
                 !.status = IF sum > g.targetAmount THEN "completed" ELSE @]

\* the body of the add-funds handler between its read and its save
addFundsApply(g, amount) ==
    LET sum == jsAdd(g.currentAmount, amount)
    IN [g EXCEPT !.currentAmount = sum,
                 !.status = IF sum >= g.targetAmount THEN "completed" ELSE @]

\* what an add-funds request body may carry as amount
AmountInputs ==
    {{}, {Num(0)}, {Num(-1)}, {Str(0)}, {Num(3)}, {Num(60000)}, {Str(3)}}

\* PUT /goals/:id/add-funds, served without another request in between
AddFunds(u, id, amount) ==
    /\ Serve
    /\ IF ~ isFloatMin(amount, 1)
       THEN /\ Respond("goals.addFunds", u, 400, {})
            /\ UNCHANGED <<goals, ledger>>
       ELSE IF ~ goalMatch(u, id)
       THEN /\ Respond("goals.addFunds", u, 404, {})
            /\ UNCHANGED <<goals, ledger>>
       ELSE LET doc == addFundsApply(goals[id], amount)
            IN /\ doc.currentAmount <= MaxAmount
               /\ goals' = [goals EXCEPT ![id] = doc]
               /\ ledger' = [ledger EXCEPT
                                ![id].amounts = Append(@, AmountValue(amount))]
               /\ Respond("goals.addFunds", u, 200, {GoalView(id, doc)})
    /\ UNCHANGED <<nextGoalId, transactions, nextTxId, notifications, nextNotifId,
                   inflight, investments, server, users,
                   nextInvId>>

\* POST /goals/seed
SeedGoals(u) ==
    /\ Serve
    /\ LET kept == {i \in DOMAIN goals : goals[i].user # u}
           new == [k \in nextGoalId .. nextGoalId + Len(sampleGoals) - 1 |->
                     [user |-> u,
                      targetAmount |-> sampleGoals[k - nextGoalId + 1].targetAmount,
                      currentAmount |-> sampleGoals[k - nextGoalId + 1].currentAmount,
                      status |-> "active"]]
       IN /\ goals' = new @@ [i \in kept |-> goals[i]]
          /\ ledger' = [k \in DOMAIN new |-> Opened(new[k].currentAmount)]
                          @@ [i \in kept |-> ledger[i]]
    /\ nextGoalId' = nextGoalId + Len(sampleGoals)
    /\ Respond("goals.seed", u, 200, {})
    /\ UNCHANGED <<transactions, nextTxId, notifications, nextNotifId, inflight,
                   investments, server, users,
                   nextInvId>>

\* A status written to a stored goal from outside the routes: no route sets
\* status, the schema admits cancelled.
CancelGoal(id) ==
    /\ Serve
    /\ id \in DOMAIN goals
    /\ goals[id].status # "cancelled"
    /\ goals' = [goals EXCEPT ![id].status = "cancelled"]
    /\ Respond("external.cancel", goals[id].user, 0, {})
    /\ UNCHANGED <<nextGoalId, transactions, nextTxId, notifications, nextNotifId,
                   inflight, ledger, investments, server, users,
                   nextInvId>>

(* --------------------------- transactions ------------------------------ *)

\* A stored transaction: [user, type, amount, category, date].  The routes
\* query and set the user path, and the reports read type, amount, category
\* and date.

\* the fixture of POST /transactions/seed: the month counted back from the
\* current one, and the day
sampleTransactions ==
    << [type |-> "income",  amount |-> 50000, category |-> "Salary",        back |-> 0, day |-> 1],
       [type |-> "income",  amount |-> 5000,  category |-> "Freelance",     back |-> 0, day |-> 15],
       [type |-> "expense", amount |-> 15000, category |-> "Housing",       back |-> 0, day |-> 5],
       [type |-> "expense", amount |-> 5000,  category |-> "Food",          back |-> 0, day |-> 10],
       [type |-> "expense", amount |-> 3000,  category |-> "Food",          back |-> 0, day |-> 12],
       [type |-> "expense", amount |-> 2500,  category |-> "Transport",     back |-> 0, day |-> 8],
       [type |-> "expense", amount |-> 2000,  category |-> "Shopping",      back |-> 0, day |-> 18],
       [type |-> "expense", amount |-> 1500,  category |-> "Entertainment", back |-> 0, day |-> 20],
       [type |-> "expense", amount |-> 8000,  category |-> "Utilities",     back |-> 0, day |-> 25],
       [type |-> "expense", amount |-> 3000,  category |-> "Healthcare",    back |-> 0, day |-> 22],
       [type |-> "expense", amount |-> 12000, category |-> "Housing",       back |-> 1, day |-> 5],
       [type |-> "expense", amount |-> 4500,  category |-> "Food",          back |-> 1, day |-> 10],
       [type |-> "expense", amount |-> 2800,  category |-> "Transport",     back |-> 1, day |-> 8],
       [type |-> "expense", amount |-> 10000, category |-> "Housing",       back |-> 2, day |-> 5],
       [type |-> "expense", amount |-> 4000,  category |-> "Food",          back |-> 2, day |-> 10],
       [type |-> "expense", amount |-> 3500,  category |-> "Transport",     back |-> 2, day |-> 8],
       [type |-> "expense", amount |-> 14000, category |-> "Housing",       back |-> 3, day |-> 5],
       [type |-> "expense", amount |-> 5000,  category |-> "Food",          back |-> 3, day |-> 10],
       [type |-> "expense", amount |-> 3000,  category |-> "Transport",     back |-> 3, day |-> 8] >>

sampleDoc(u, t) ==
    [user |-> u, type |-> t.type, amount |-> t.amount, category |-> t.category,
     date |-> newDate(NowYear, NowMonth - t.back, t.day)]

TxView(id, t) == [id |-> id, user |-> t.user, type |-> t.type, amount |-> t.amount,
                  category |-> t.category, date |-> t.date]

\* the ids of the stored transactions a Mongoose filter selects, the filter
\* being [user, type, category, startDate, endDate], each but user optional
txFind(q) ==
    {id \in DOMAIN transactions :
        /\ transactions[id].user = q.user
        /\ q.type # {} => transactions[id].type = The(q.type)
        /\ q.category # {} => transactions[id].category = The(q.category)
        /\ q.startDate # {} => transactions[id].date >= The(q.startDate)
        /\ q.endDate # {} => transactions[id].date <= The(q.endDate)}

\* the documents of a set of ids as the array a query returns, in the order
\* they were inserted
RECURSIVE txArray(_)
txArray(ids) ==
    IF ids = {} THEN << >>
    ELSE LET last == CHOOSE i \in ids : \A j \in ids : j <= i
         IN Append(txArray(ids \ {last}), transactions[last])

\* isIn without its list
isTxTypeMutantAny(field) == field # {}

\* isIn(['income', 'expense'])
isTxType(field) == field # {} /\ The(field) \in {"income", "expense"}

\* what a transaction request body may carry.  An ISO 8601 date is its number;
\* a date that is not ISO 8601 is 0.
BadDate == 0
TxBodies ==
    [type : {{"income"}, {"expense"}}, category : {{"Food"}}, amount : {{Num(5)}},
     date : {{}}, user : {{}}]
    \cup [type : {{"expense"}}, category : {{"Housing"}}, amount : {{Num(0)}, {Str(7)}},
          date : {{newDate(NowYear, NowMonth - 1, 28)}}, user : {{}, {"A"}, {"B"}}]
    \cup [type : {{}, {"transfer"}}, category : {{}}, amount : {{}}, date : {{}},
          user : {{}, {"B"}}]
    \cup [type : {{}}, category : {{}, {""}}, amount : {{}, {Num(-1)}, {Num(7)}},
          date : {{}, {BadDate}}, user : {{}}]

isISO8601(field) == field # {} /\ The(field) # BadDate

\* GET /transactions
ListTransactions(u, q) ==
    /\ Serve
    /\ q.user = u
    /\ Respond("transactions.list", u, 200,
               {TxView(id, transactions[id]) : id \in txFind(q)})
    /\ UNCHANGED <<goals, nextGoalId, transactions, nextTxId, notifications,
                   nextNotifId, inflight, ledger, investments, server, users,
                   nextInvId>>

\* POST /transactions
CreateTransaction(u, b) ==
    /\ Serve
    /\ IF /\ isTxType(b.type)
          /\ notEmpty(b.category)
          /\ isFloatMin(b.amount, 0)
          /\ (b.date = {} \/ isISO8601(b.date))
       THEN LET doc == [user |-> u, type |-> The(b.type),
                        amount |-> castNumber(The(b.amount)),
                        category |-> The(b.category),
                        date |-> IF b.date = {} THEN Today ELSE The(b.date)]
            IN /\ transactions' = (nextTxId :> doc) @@ transactions
               /\ nextTxId' = nextTxId + 1
               /\ Respond("transactions.create", u, 201, {TxView(nextTxId, doc)})
       ELSE /\ Respond("transactions.create", u, 400, {})
            /\ UNCHANGED <<transactions, nextTxId>>
    /\ UNCHANGED <<goals, nextGoalId, notifications, nextNotifId, inflight, ledger,
                   investments, server, users,
                   nextInvId>>

\* findOneAndUpdate(filter, req.body): every path the body carries is set
txUpdated(t, b) ==
    [user |-> IF b.user = {} THEN t.user ELSE The(b.user),
     type |-> IF b.type = {} THEN t.type ELSE The(b.type),
     amount |-> IF b.amount = {} THEN t.amount ELSE castNumber(The(b.amount)),
     category |-> IF b.category = {} THEN t.category ELSE The(b.category),
     date |-> IF b.date = {} THEN t.date ELSE The(b.date)]

\* PUT /transactions/:id
UpdateTransaction(u, id, b) ==
    /\ Serve
    /\ IF ~ ( /\ (b.type = {} \/ isTxType(b.type))
              /\ optionalNotEmpty(b.category)
              /\ optionalIsFloatMin(b.amount, 0)
              /\ (b.date = {} \/ isISO8601(b.date)) )
       THEN /\ Respond("transactions.update", u, 400, {})
            /\ UNCHANGED transactions
       ELSE IF ~ (id \in DOMAIN transactions /\ transactions[id].user = u)
       THEN /\ Respond("transactions.update", u, 404, {})
            /\ UNCHANGED transactions
       ELSE LET doc == txUpdated(transactions[id], b)
            IN /\ transactions' = [transactions EXCEPT ![id] = doc]
               /\ Respond("transactions.update", u, 200, {TxView(id, doc)})
    /\ UNCHANGED <<goals, nextGoalId, nextTxId, notifications, nextNotifId,
                   inflight, ledger, investments, server, users,
                   nextInvId>>

\* DELETE /transactions/:id
DeleteTransaction(u, id) ==
    /\ Serve
    /\ IF id \in DOMAIN transactions /\ transactions[id].user = u
       THEN /\ transactions' = [i \in DOMAIN transactions \ {id} |-> transactions[i]]
            /\ Respond("transactions.delete", u, 200, {})
       ELSE /\ Respond("transactions.delete", u, 404, {})
            /\ UNCHANGED transactions
    /\ UNCHANGED <<goals, nextGoalId, nextTxId, notifications, nextNotifId,
                   inflight, ledger, investments, server, users,
                   nextInvId>>

\* POST /transactions/seed
SeedTransactions(u) ==
    /\ Serve
    /\ LET kept == {i \in DOMAIN transactions : transactions[i].user # u}
           new == [k \in nextTxId .. nextTxId + Len(sampleTransactions) - 1 |->
                     sampleDoc(u, sampleTransactions[k - nextTxId + 1])]
       IN transactions' = new @@ [i \in kept |-> transactions[i]]
    /\ nextTxId' = nextTxId + Len(sampleTransactions)
    /\ Respond("transactions.seed", u, 200, {})
    /\ UNCHANGED <<goals, nextGoalId, notifications, nextNotifId, inflight, ledger,
                   investments, server, users,
                   nextInvId>>

(* ------------------------------ reports -------------------------------- *)

RECURSIVE reduceAmounts(_, _)
\* array.reduce((sum, t) => sum + t.amount, sum)
reduceAmounts(arr, sum) ==
    IF arr = << >> THEN sum ELSE reduceAmounts(Tail(arr), sum + Head(arr).amount)

sumAmounts(arr) == reduceAmounts(arr, 0)

\* array.filter(t => t.type === type)
filterType(arr, type) == LET Keep(t) == t.type = type IN SelectSeq(arr, Keep)

RECURSIVE categoryReduceMutantAllTypes(_, _)
\* the test of the type left out
categoryReduceMutantAllTypes(arr, acc) ==
    IF arr = << >> THEN acc
    ELSE LET t == Head(arr)
         IN categoryReduceMutantAllTypes(Tail(arr),
               IF t.category \in DOMAIN acc
               THEN [acc EXCEPT ![t.category] = @ + t.amount]
               ELSE (t.category :> (0 + t.amount)) @@ acc)

RECURSIVE categoryReduceMutantLastWins(_, _)
\* acc[category] = amount: the entry overwritten instead of added to
categoryReduceMutantLastWins(arr, acc) ==
    IF arr = << >> THEN acc
    ELSE LET t == Head(arr)
         IN categoryReduceMutantLastWins(Tail(arr),
               IF t.type # "expense" THEN acc
               ELSE IF t.category \in DOMAIN acc
                    THEN [acc EXCEPT ![t.category] = t.amount]
                    ELSE (t.category :> t.amount) @@ acc)

RECURSIVE categoryReduce(_, _)
\* the reduce that builds categoryBreakdown: acc[category] = (acc[category]
\* || 0) + amount for each expense
categoryReduce(arr, acc) ==
    IF arr = << >> THEN acc
    ELSE LET t == Head(arr)
         IN categoryReduce(Tail(arr),
               IF t.type # "expense" THEN acc
               ELSE IF t.category \in DOMAIN acc
                    THEN [acc EXCEPT ![t.category] = @ + t.amount]
                    ELSE (t.category :> (0 + t.amount)) @@ acc)

\* every transaction counted as an expense
summaryMutantNoFilter(arr) ==
    [income |-> sumAmounts(filterType(arr, "income")),
     expenses |-> sumAmounts(arr),
     balance |-> sumAmounts(filterType(arr, "income")) - sumAmounts(arr),
     categoryBreakdown |-> categoryReduce(arr, << >>),
     transactionCount |-> Len(arr)]

\* the body of GET /reports/summary from the array the query returned
summary(arr) ==
    LET income == sumAmounts(filterType(arr, "income"))
        expenses == sumAmounts(filterType(arr, "expense"))
    IN [income |-> income,
        expenses |-> expenses,
        balance |-> income - expenses,
        categoryBreakdown |-> categoryReduce(arr, << >>),
        transactionCount |-> Len(arr)]

\* the date ranges a summary request may ask for
SummaryRanges ==
    [startDate : {{}, {newDate(NowYear, NowMonth, 1)}},
     endDate : {{}, {newDate(NowYear, NowMonth, 28)}}]
    \cup {[startDate |-> {BadDate}, endDate |-> {}]}

\* GET /reports/summary
Summary(u, range) ==
    /\ Serve
    /\ IF ~ ( /\ (range.startDate = {} \/ isISO8601(range.startDate))
              /\ (range.endDate = {} \/ isISO8601(range.endDate)) )
       THEN Respond("reports.summary", u, 400, {})
       ELSE LET q == [user |-> u, type |-> {}, category |-> {},
                      startDate |-> range.startDate, endDate |-> range.endDate]
            IN RespondReport("reports.summary", u, q, summary(txArray(txFind(q))))
    /\ UNCHANGED <<goals, nextGoalId, transactions, nextTxId, notifications,
                   nextNotifId, inflight, ledger, investments, server, users,
                   nextInvId>>

(* ------------------------- category report ----------------------------- *)

\* the days of a calendar month
daysInMonth(y, m) ==
    IF m \in {4, 6, 9, 11} THEN 30
    ELSE IF m # 2 THEN 31
    ELSE IF (y % 4 = 0 /\ y % 100 # 0) \/ y % 400 = 0 THEN 29 ELSE 28

\* new Date(month + '-01')
startOfMonth(month) == newDate(month.year, month.month, 1)

\* new Date(year, month + 1, 0): the midnight that starts the month's last day
endOfMonth(month) == newDate(month.year, month.month, daysInMonth(month.year, month.month))

\* Math.round(num / den * 100) for num >= 0 and den > 0: the nearest whole
\* number, a half rounded up
mathRoundMutantFloor(num, den) == (num * 100) \div den

\* the factor 100 left out
mathRoundMutantNoScale(num, den) == ((num * 2) + den) \div (den * 2)

mathRound(num, den) == ((num * 200) + den) \div (den * 2)

\* the position of a category among the entries of an object, 0 when it has
\* no entry yet
entryOf(acc, category) ==
    IF \E k \in 1 .. Len(acc) : acc[k].category = category
    THEN CHOOSE k \in 1 .. Len(acc) : acc[k].category = category
    ELSE 0

RECURSIVE categoryCountReduce(_, _)
\* the reduce of the category report: acc[category] = { amount: (amount || 0)
\* + t.amount, count: (count || 0) + 1 }, the entries of the object kept in
\* the order their keys were first set
categoryCountReduce(arr, acc) ==
    IF arr = << >> THEN acc
    ELSE LET t == Head(arr)
             k == entryOf(acc, t.category)
         IN categoryCountReduce(Tail(arr),
               IF k = 0
               THEN Append(acc, [category |-> t.category, amount |-> 0 + t.amount,
                                 count |-> 0 + 1])
               ELSE [acc EXCEPT ![k] = [category |-> t.category,
                                        amount |-> acc[k].amount + t.amount,
                                        count |-> acc[k].count + 1]])

\* the body of GET /reports/categories from the array the query returned
categories(arr) ==
    LET categoryBreakdown == categoryCountReduce(arr, << >>)
        total == reduceAmounts(categoryBreakdown, 0)
    IN [categories |->
           [k \in 1 .. Len(categoryBreakdown) |->
               [category |-> categoryBreakdown[k].category,
                amount |-> categoryBreakdown[k].amount,
                percentage |-> IF total > 0
                               THEN mathRound(categoryBreakdown[k].amount, total)
                               ELSE 0]],
        total |-> total]

\* a month a category report may be asked for ("YYYY-MM"); a month that is no
\* date has year 0
BadMonth == [year |-> 0, month |-> 0]
CategoryMonths ==
    {{}, {[year |-> NowYear, month |-> NowMonth]}, {[year |-> NowYear, month |-> 1]},
     {BadMonth}}

\* GET /reports/categories; a month that is no date makes the query's dates
\* invalid, find() rejects and the catch answers 500
Categories(u, month) ==
    /\ Serve
    /\ IF month = {BadMonth}
       THEN Respond("reports.categories", u, 500, {})
       ELSE LET q == [user |-> u, type |-> {"expense"}, category |-> {},
                      startDate |-> {startOfMonth(m) : m \in month},
                      endDate |-> {endOfMonth(m) : m \in month}]
            IN RespondReport("reports.categories", u, q, categories(txArray(txFind(q))))
    /\ UNCHANGED <<goals, nextGoalId, transactions, nextTxId, notifications,
                   nextNotifId, inflight, ledger, investments, server, users,
                   nextInvId>>

(* -------------------------- monthly report ----------------------------- *)

monthNames ==
    << "Jan", "Feb", "Mar", "Apr", "May", "Jun", "Jul", "Aug", "Sep", "Oct", "Nov",
       "Dec" >>

\* parseInt of a months parameter that is not a number
NaN == -1000

\* date.setMonth(m) with the month counted from 1 here: the year rolls when m
\* leaves 1..12, and a day the target month does not have rolls into the
\* month after it
setMonth(date, m) ==
    LET y == getFullYear(date) + ((m - 1) \div 12)
        mm == ((m - 1) % 12) + 1
        d == getDate(date)
        rest == date % 100
    IN IF d <= daysInMonth(y, mm)
       THEN newDate(y, mm, d) + rest
       ELSE newDate(y, mm + 1, d - daysInMonth(y, mm)) + rest

\* toLocaleString('default', { month: 'short', year: '2-digit' }): the short
\* month, a space and the two-digit year ("Feb 26")
toLocaleMonthKey(date) == <<monthNames[getMonth(date)], " ", getFullYear(date) % 100>>

\* `${monthNames[monthIndex]}'${year.toString().slice(-2)}` ("Feb'26")
loopMonthKey(monthIndex, year) == <<monthNames[monthIndex], "'", year % 100>>

RECURSIVE sortByDate(_)
\* .sort({ date: 1 }): the documents of a set of ids, oldest first
sortByDate(ids) ==
    IF ids = {} THEN << >>
    ELSE LET last == CHOOSE i \in ids :
                        \A j \in ids : \/ transactions[j].date < transactions[i].date
                                       \/ (transactions[j].date = transactions[i].date
                                            /\ j <= i)
         IN Append(sortByDate(ids \ {last}), transactions[last])

RECURSIVE monthlyReduce(_, _)
\* the reduce that builds monthlyData: acc[monthKey] = (acc[monthKey] || 0) +
\* amount
monthlyReduce(arr, acc) ==
    IF arr = << >> THEN acc
    ELSE LET t == Head(arr)
             monthKey == toLocaleMonthKey(t.date)
         IN monthlyReduce(Tail(arr),
               IF monthKey \in DOMAIN acc
               THEN [acc EXCEPT ![monthKey] = @ + t.amount]
               ELSE (monthKey :> (0 + t.amount)) @@ acc)

\* the month pushed whatever its spend
pushMonthMutantKeepZero(list, month, actual) ==
    Append(list, [month |-> month, actual |-> actual, budget |-> 10000])

\* if (actual > 0) last6Months.push({ month, actual, budget: 10000 })
pushMonth(list, month, actual) ==
    IF actual > 0
    THEN Append(list, [month |-> month, actual |-> actual, budget |-> 10000])
    ELSE list

RECURSIVE last6Months(_, _, _)
\* the loop for (i = 5; i >= 0; i--) from i down, over monthlyData
last6Months(i, monthlyData, list) ==
    IF i < 0 THEN list
    ELSE LET wrapped == NowMonth - i < 1
             monthIndex == IF wrapped THEN NowMonth - i + 12 ELSE NowMonth - i
             year == IF wrapped THEN NowYear - 1 ELSE NowYear
             monthKey == loopMonthKey(monthIndex, year)
             actual == IF monthKey \in DOMAIN monthlyData THEN monthlyData[monthKey]
                       ELSE 0
         IN last6Months(i - 1, monthlyData,
                        pushMonth(list, monthNames[monthIndex], actual))

\* what a monthly request may carry as months, after parseInt
MonthsInputs == {{}, {3}, {12}, {NaN}}

\* GET /reports/monthly; months that is not a number makes startDate an
\* invalid date, find() rejects and the catch answers 500
Monthly(u, months) ==
    /\ Serve
    /\ IF months = {NaN}
       THEN Respond("reports.monthly", u, 500, {})
       ELSE LET n == IF months = {} THEN 6 ELSE The(months)
                startDate == setMonth(Today, getMonth(Today) - n)
                q == [user |-> u, type |-> {"expense"}, category |-> {},
                      startDate |-> {startDate}, endDate |-> {}, months |-> n]
                monthlyData == monthlyReduce(sortByDate(txFind(q)), << >>)
            IN RespondReport("reports.monthly", u, q, last6Months(5, monthlyData, << >>))
    /\ UNCHANGED <<goals, nextGoalId, transactions, nextTxId, notifications,
                   nextNotifId, inflight, ledger, investments, server, users,
                   nextInvId>>

(* ------------------------ investment roll-up --------------------------- *)

\* A stored investment: [user, type, investedAmount, currentValue], the
\* currentValue being absent ({}) or one number.

\* the instrument types the schema stores
InvestmentTypes == {"stock", "mutual_fund", "fd", "ppf", "other"}

\* Investment.find({ user }): the documents in the order they were inserted
RECURSIVE invArray(_)
invArray(ids) ==
    IF ids = {} THEN << >>
    ELSE LET last == CHOOSE i \in ids : \A j \in ids : j <= i
         IN Append(invArray(ids \ {last}), investments[last])

invFind(u) == {id \in DOMAIN investments : investments[id].user = u}

\* the invested amount counted when the value is absent
currentValueOr0MutantInvested(i) ==
    IF i.currentValue = {} THEN i.investedAmount ELSE The(i.currentValue)

\* (i.currentValue || 0)
currentValueOr0(i) == IF i.currentValue = {} THEN 0 ELSE The(i.currentValue)

RECURSIVE reduceInvested(_, _)
\* investments.reduce((sum, i) => sum + i.investedAmount, sum)
reduceInvested(arr, sum) ==
    IF arr = << >> THEN sum
    ELSE reduceInvested(Tail(arr), sum + Head(arr).investedAmount)

RECURSIVE reduceCurrentValue(_, _)
\* investments.reduce((sum, i) => sum + (i.currentValue || 0), sum)
reduceCurrentValue(arr, sum) ==
    IF arr = << >> THEN sum
    ELSE reduceCurrentValue(Tail(arr), sum + currentValueOr0(Head(arr)))

RECURSIVE byTypeReduceMutantCountOne(_, _)
\* count: 1 written for count: (count || 0) + 1
byTypeReduceMutantCountOne(arr, acc) ==
    IF arr = << >> THEN acc
    ELSE LET i == Head(arr)
             had == i.type \in DOMAIN acc
             entry == [count |-> 1,
                       invested |-> (IF had THEN acc[i.type].invested ELSE 0)
                                      + i.investedAmount,
                       currentValue |-> (IF had THEN acc[i.type].currentValue ELSE 0)
                                          + currentValueOr0(i)]
         IN byTypeReduceMutantCountOne(Tail(arr),
               IF had THEN [acc EXCEPT ![i.type] = entry] ELSE (i.type :> entry) @@ acc)

RECURSIVE byTypeReduce(_, _)
\* the reduce that builds byType: acc[type] = { count: (count || 0) + 1,
\* invested: (invested || 0) + investedAmount, currentValue: (currentValue ||
\* 0) + (i.currentValue || 0) }
byTypeReduce(arr, acc) ==
    IF arr = << >> THEN acc
    ELSE LET i == Head(arr)
             had == i.type \in DOMAIN acc
             entry == [count |-> (IF had THEN acc[i.type].count ELSE 0) + 1,
                       invested |-> (IF had THEN acc[i.type].invested ELSE 0)
                                      + i.investedAmount,
                       currentValue |-> (IF had THEN acc[i.type].currentValue ELSE 0)
                                          + currentValueOr0(i)]
         IN byTypeReduce(Tail(arr),
               IF had THEN [acc EXCEPT ![i.type] = entry] ELSE (i.type :> entry) @@ acc)

\* the body of GET /reports/investments from the array the query returned
investmentSummary(arr) ==
    LET totalInvested == reduceInvested(arr, 0)
        totalCurrentValue == reduceCurrentValue(arr, 0)
    IN [totalInvested |-> totalInvested,
        totalCurrentValue |-> totalCurrentValue,
        totalReturns |-> totalCurrentValue - totalInvested,
        byType |-> byTypeReduce(arr, << >>),
        investmentCount |-> Len(arr)]

\* GET /reports/investments
InvestmentSummary(u) ==
    /\ Serve
    /\ RespondReport("reports.investments", u, [user |-> u],
                     investmentSummary(invArray(invFind(u))))
    /\ UNCHANGED <<goals, nextGoalId, transactions, nextTxId, notifications,
                   nextNotifId, inflight, ledger, investments, server, users,
                   nextInvId>>

(* --------------------------- notifications ----------------------------- *)

\* A stored notification: [userId, type, read].  The fixture of POST
\* /notifications/seed, in insertion order: the type of each sample, read
\* being index < 2.
sampleNotifications ==
    << "goal", "budget", "transaction", "investment", "system", "transaction",
       "system", "goal" >>

NotifTypes == {"transaction", "budget", "goal", "investment", "system"}

NotifView(id, n) == [id |-> id, userId |-> n.userId, type |-> n.type, read |-> n.read]

\* Notification.find({ userId }) and the other filters on userId
notifOf(u) == {id \in DOMAIN notifications : notifications[id].userId = u}

notifMatch(u, id) == id \in DOMAIN notifications /\ notifications[id].userId = u

\* what a create-notification body may carry; the handler reads title,
\* message, type and link and nothing else
NotifBodies ==
    [title : {{"t"}}, message : {{"m"}}, type : {{}, {"goal"}}, userId : {{}}]
    \cup {[title |-> {"t"}, message |-> {"m"}, type |-> {}, userId |-> {"B"}],
          [title |-> {}, message |-> {"m"}, type |-> {}, userId |-> {}],
          [title |-> {"t"}, message |-> {}, type |-> {}, userId |-> {}],
          [title |-> {"t"}, message |-> {"m"}, type |-> {"bogus"}, userId |-> {}]}

\* GET /notifications; the stored notifications of a user stay below the
\* limit of 50
ListNotifications(u) ==
    /\ Serve
    /\ Respond("notifications.list", u, 200,
               {NotifView(id, notifications[id]) : id \in notifOf(u)})
    /\ UNCHANGED <<goals, nextGoalId, transactions, nextTxId, notifications,
                   nextNotifId, inflight, ledger, investments, server, users,
                   nextInvId>>

\* GET /notifications/unread-count
UnreadCount(u) ==
    /\ Serve
    /\ RespondReport("notifications.unreadCount", u, NoBody,
          [count |-> Cardinality({id \in notifOf(u) : ~ notifications[id].read})])
    /\ UNCHANGED <<goals, nextGoalId, transactions, nextTxId, notifications,
                   nextNotifId, inflight, ledger, investments, server, users,
                   nextInvId>>

\* POST /notifications: save() rejects a document whose required title or
\* message is missing or whose type is outside the enum, and the catch
\* answers 500
CreateNotification(u, b) ==
    /\ Serve
    /\ LET type == IF b.type = {} THEN "system" ELSE The(b.type)
       IN IF notEmpty(b.title) /\ notEmpty(b.message) /\ type \in NotifTypes
          THEN LET doc == [userId |-> u, type |-> type, read |-> FALSE]
               IN /\ notifications' = (nextNotifId :> doc) @@ notifications
                  /\ nextNotifId' = nextNotifId + 1
                  /\ Respond("notifications.create", u, 201,
                             {NotifView(nextNotifId, doc)})
          ELSE /\ Respond("notifications.create", u, 500, {})
               /\ UNCHANGED <<notifications, nextNotifId>>
    /\ UNCHANGED <<goals, nextGoalId, transactions, nextTxId, inflight, ledger,
                   investments, server, users,
                   nextInvId>>

\* POST /notifications/seed
SeedNotifications(u) ==
    /\ Serve
    /\ LET kept == DOMAIN notifications \ notifOf(u)
           new == [k \in nextNotifId .. nextNotifId + Len(sampleNotifications) - 1 |->
                     [userId |-> u,
                      type |-> sampleNotifications[k - nextNotifId + 1],
                      read |-> (k - nextNotifId) < 2]]
       IN /\ notifications' = new @@ [i \in kept |-> notifications[i]]
          /\ Respond("notifications.seed", u, 200,
                     {NotifView(k, new[k]) : k \in DOMAIN new})
    /\ nextNotifId' = nextNotifId + Len(sampleNotifications)
    /\ UNCHANGED <<goals, nextGoalId, transactions, nextTxId, inflight, ledger,
                   investments, server, users,
                   nextInvId>>

\* PUT /notifications/:id/read
MarkRead(u, id) ==
    /\ Serve
    /\ IF notifMatch(u, id)
       THEN LET doc == [notifications[id] EXCEPT !.read = TRUE]
            IN /\ notifications' = [notifications EXCEPT ![id] = doc]
               /\ Respond("notifications.markRead", u, 200, {NotifView(id, doc)})
       ELSE /\ Respond("notifications.markRead", u, 404, {})
            /\ UNCHANGED notifications
    /\ UNCHANGED <<goals, nextGoalId, transactions, nextTxId, nextNotifId,
                   inflight, ledger, investments, server, users,
                   nextInvId>>

\* updateMany with the filter on userId left out
MarkAllReadMutantEveryone(u) ==
    /\ Serve
    /\ notifications' = [id \in DOMAIN notifications |->
                           [notifications[id] EXCEPT !.read = TRUE]]
    /\ Respond("notifications.markAllRead", u, 200, {})
    /\ UNCHANGED <<goals, nextGoalId, transactions, nextTxId, nextNotifId,
                   inflight, ledger, investments, server, users,
                   nextInvId>>

\* PUT /notifications/mark-all-read
MarkAllRead(u) ==
    /\ Serve
    /\ notifications' = [id \in DOMAIN notifications |->
                           IF notifications[id].userId = u /\ ~ notifications[id].read
                           THEN [notifications[id] EXCEPT !.read = TRUE]
                           ELSE notifications[id]]
    /\ Respond("notifications.markAllRead", u, 200, {})
    /\ UNCHANGED <<goals, nextGoalId, transactions, nextTxId, nextNotifId,
                   inflight, ledger, investments, server, users,
                   nextInvId>>

\* DELETE /notifications/:id
DeleteNotification(u, id) ==
    /\ Serve
    /\ IF notifMatch(u, id)
       THEN /\ notifications' = [i \in DOMAIN notifications \ {id} |-> notifications[i]]
            /\ Respond("notifications.delete", u, 200, {})
       ELSE /\ Respond("notifications.delete", u, 404, {})
            /\ UNCHANGED notifications
    /\ UNCHANGED <<goals, nextGoalId, transactions, nextTxId, nextNotifId,
                   inflight, ledger, investments, server, users,
                   nextInvId>>

\* DELETE /notifications
DeleteAllNotifications(u) ==
    /\ Serve
    /\ notifications' = [i \in DOMAIN notifications \ notifOf(u) |-> notifications[i]]
    /\ Respond("notifications.deleteAll", u, 200, {})
    /\ UNCHANGED <<goals, nextGoalId, transactions, nextTxId, nextNotifId,
                   inflight, ledger, investments, server, users,
                   nextInvId>>

GoalIds == DOMAIN goals \cup {NoId}

Init ==
    /\ goals = << >>
    /\ nextGoalId = 1
    /\ transactions = << >>
    /\ nextTxId = 1
    /\ notifications = << >>
    /\ nextNotifId = 1
    /\ inflight = {}
    /\ res = [route |-> "none", user |-> "A", status |-> 0, docs |-> {},
              query |-> NoBody, body |-> NoBody]
    /\ served = 0
    /\ ledger = << >>
    /\ server = Connected
    /\ investments = << >>
    /\ users = << >>
    /\ nextInvId = Len(investments) + 1

NextGoals ==
    \/ \E u \in Users : ListGoals(u)
    \/ \E u \in Users, b \in GoalBodies : CreateGoal(u, b)
    \/ \E u \in Users, id \in GoalIds, b \in GoalBodies : UpdateGoal(u, id, b)
    \/ \E u \in Users, id \in GoalIds : DeleteGoal(u, id)
    \/ \E u \in Users, id \in GoalIds, a \in AmountInputs : AddFunds(u, id, a)
    \/ \E u \in Users : SeedGoals(u)
    \/ \E id \in DOMAIN goals : CancelGoal(id)

SpecGoals == Init /\ [][NextGoals]_vars

(* ------------------------ claims on the goal routes -------------------- *)

\* the amount is present and its value is > 0
PositiveAmount(amount) == amount # {} /\ \A x \in amount : x.v > 0

\* the step is an add-funds request of u on goal id with this amount, and the
\* goal exists and is u's
AddFundsOn(u, id, amount) == AddFunds(u, id, amount) /\ goalMatch(u, id)

\* the step answers a request to this route
Answers(route) == res'.route = route

\* C1: add-funds on an existing goal of the caller with a strictly positive
\* amount sets currentAmount to the previous currentAmount plus the amount, and
\* sets status to completed when the new currentAmount >= targetAmount,
\* leaving it as it was otherwise.
C1_AddFundsAddsAmount ==
    [][Answers("goals.addFunds") =>
       \A u \in Users, id \in DOMAIN goals, a \in AmountInputs :
         (AddFundsOn(u, id, a) /\ PositiveAmount(a)) =>
            /\ goals'[id].currentAmount = goals[id].currentAmount + AmountValue(a)
            /\ goals'[id].status =
                 IF goals[id].currentAmount + AmountValue(a) >= goals[id].targetAmount
                 THEN "completed" ELSE goals[id].status]_vars

\* the step answers an add-funds request of the caller it names that carried
\* a missing, zero or negative amount
InvalidAmountAsked ==
    \E id \in GoalIds, a \in AmountInputs :
        ~ PositiveAmount(a) /\ AddFunds(res'.user, id, a)

\* C2: add-funds with a missing, zero or negative amount is answered 400 and
\* leaves every stored record as it was: an add-funds step answered otherwise
\* carried a positive amount, and one answered 400 changed nothing.
C2_InvalidAmountRejected ==
    [][Answers("goals.addFunds") =>
         IF res'.status = 400
         THEN InvalidAmountAsked /\ UNCHANGED <<goals, transactions, notifications>>
         ELSE ~ InvalidAmountAsked]_vars

\* C2 witness: an add-funds request on a stored goal of the caller was answered
\* 400.
C2_Witness ==
    /\ res.route = "goals.addFunds" /\ res.status = 400
    /\ \E id \in DOMAIN goals : goals[id].user = res.user

\* C3: add-funds leaves a cancelled goal cancelled and a completed goal
\* completed.
C3_AddFundsKeepsTerminal ==
    [][Answers("goals.addFunds") =>
       \A u \in Users, id \in DOMAIN goals, a \in AmountInputs :
         AddFundsOn(u, id, a) =>
            /\ goals[id].status = "cancelled" => goals'[id].status = "cancelled"
            /\ goals[id].status = "completed" => goals'[id].status = "completed"]_vars

\* C4 as stated: in every reachable state a goal is completed exactly when its
\* currentAmount >= its targetAmount.
C4_CompletedIffReached ==
    \A id \in DOMAIN goals :
        goals[id].status = "completed"
            <=> goals[id].currentAmount >= goals[id].targetAmount

\* C4 amended: a goal becomes completed only in a step that leaves its
\* currentAmount >= its targetAmount, an accepted add-funds that leaves
\* currentAmount >= targetAmount leaves the goal completed, create stores
\* active and update leaves the status alone, and a completed goal never goes
\* back to active.
C4_CompletedOnlyByReaching ==
    [][/\ \A id \in DOMAIN goals \cap DOMAIN goals' :
            /\ goals[id].status = "completed" => goals'[id].status # "active"
            /\ (goals[id].status # "completed" /\ goals'[id].status = "completed")
                 => /\ goals'[id].currentAmount >= goals'[id].targetAmount
                    /\ Answers("goals.addFunds")
       /\ \A id \in DOMAIN goals' \ DOMAIN goals : goals'[id].status = "active"
       /\ (Answers("goals.addFunds") /\ res'.status = 200) =>
            \A d \in res'.docs :
               goals'[d.id].currentAmount >= goals'[d.id].targetAmount
                 => goals'[d.id].status = "completed"
       /\ Answers("goals.update") =>
            \A id \in DOMAIN goals :
               id \in DOMAIN goals' /\ goals'[id].status = goals[id].status]_vars

\* C4 witness: an add-funds request has just completed a goal by bringing its
\* currentAmount exactly to its targetAmount.
C4_Witness ==
    /\ res.route = "goals.addFunds" /\ res.status = 200
    /\ \E d \in res.docs :
          /\ d.status = "completed" /\ d.currentAmount = d.targetAmount
          /\ Len(ledger[d.id].amounts) = 1
          /\ ledger[d.id].start < d.targetAmount

C6_TwoDepositsAddUp ==
    \A id \in DOMAIN goals :
        Len(ledger[id].amounts) = 2 =>
            /\ goals[id].currentAmount =
                 ledger[id].start + ledger[id].amounts[1] + ledger[id].amounts[2]
            /\ goals[id].status = "completed"
                 <=> goals[id].currentAmount >= goals[id].targetAmount

(* ------------------ add-funds as the requests interleave ---------------- *)

\* the add-funds amounts of the interleaved requests
RaceAmounts == {{Num(3)}, {Num(60000)}}

FreeSlots == (1 .. MaxInflight) \ {r.slot : r \in inflight}

\* PUT /goals/:id/add-funds up to its await of goal.save(): the validators,
\* findOne, and the change of the document in memory
AddFundsFindOne(u, id, amount) ==
    /\ Serve
    /\ FreeSlots # {}
    /\ IF ~ isFloatMin(amount, 1)
       THEN /\ Respond("goals.addFunds", u, 400, {})
            /\ UNCHANGED inflight
       ELSE IF ~ goalMatch(u, id)
       THEN /\ Respond("goals.addFunds", u, 404, {})
            /\ UNCHANGED inflight
       ELSE LET doc == addFundsApply(goals[id], amount)
            IN /\ doc.currentAmount <= MaxAmount
               /\ inflight' = inflight \cup
                     {[slot |-> CHOOSE k \in FreeSlots : \A j \in FreeSlots : k <= j,
                       user |-> u, id |-> id, amount |-> amount,
                       read |-> goals[id], doc |-> doc]}
               /\ UNCHANGED res
    /\ UNCHANGED <<goals, nextGoalId, transactions, nextTxId, notifications,
                   nextNotifId, ledger, investments, server, users,
                   nextInvId>>

\* the rest of the handler: goal.save() writes the paths the handler changed
\* (currentAmount, and status when it was set to another value), then the
\* document in memory is the response
AddFundsSave(r) ==
    /\ r \in inflight
    /\ r.id \in DOMAIN goals
    /\ goals' = [goals EXCEPT
                   ![r.id].currentAmount = r.doc.currentAmount,
                   ![r.id].status = IF r.doc.status # r.read.status
                                    THEN r.doc.status ELSE @]
    /\ ledger' = [ledger EXCEPT ![r.id].amounts = Append(@, AmountValue(r.amount))]
    /\ inflight' = inflight \ {r}
    /\ Respond("goals.addFunds", r.user, 200, {GoalView(r.id, r.doc)})
    /\ UNCHANGED <<nextGoalId, transactions, nextTxId, notifications, nextNotifId,
                   served, investments, server, users,
                   nextInvId>>

NextRace ==
    \/ \E u \in Users, b \in GoalBodies : CreateGoal(u, b)
    \/ \E u \in Users : SeedGoals(u)
    \/ \E u \in Users, id \in GoalIds, a \in RaceAmounts : AddFundsFindOne(u, id, a)
    \/ \E r \in inflight : AddFundsSave(r)

SpecRace == Init /\ [][NextRace]_vars

\* C7: when two add-funds requests on one goal, with amounts a and b, have each
\* read the goal and saved it, in whatever order their reads and saves came,
\* the stored currentAmount is the amount before them + a + b, and the goal is
\* completed if that sum >= targetAmount.
C7_NoDepositLost ==
    inflight = {} =>
        \A id \in DOMAIN goals :
            Len(ledger[id].amounts) = 2 =>
                LET sum == ledger[id].start + ledger[id].amounts[1]
                                            + ledger[id].amounts[2]
                IN /\ goals[id].currentAmount = sum
                   /\ sum >= goals[id].targetAmount => goals[id].status = "completed"

(* --------------------- the summary over any transactions ---------------- *)

\* transactions the store may hold when a summary is asked for
MaxTx == 3
TxValues ==
    { [user |-> "A", type |-> "income",  amount |-> 50000, category |-> "Salary",  date |-> Today],
      [user |-> "A", type |-> "expense", amount |-> 15000, category |-> "Housing", date |-> Today],
      [user |-> "A", type |-> "expense", amount |-> 5000,  category |-> "Food",    date |-> Today],
      [user |-> "A", type |-> "expense", amount |-> 0,     category |-> "Food",    date |-> Today],
      [user |-> "A", type |-> "income",  amount |-> 0,     category |-> "Food",    date |-> Today],
      [user |-> "A", type |-> "expense", amount |-> 5000,  category |-> "Food",
       date |-> newDate(NowYear, NowMonth - 1, 28)],
      [user |-> "B", type |-> "expense", amount |-> 5000,  category |-> "Food",    date |-> Today],
      [user |-> "B", type |-> "income",  amount |-> 50000, category |-> "Salary",  date |-> Today] }

InitSummary ==
    /\ \E n \in 0 .. MaxTx :
          /\ transactions \in [1 .. n -> TxValues]
          /\ nextTxId = n + 1
    /\ goals = << >>
    /\ nextGoalId = 1
    /\ notifications = << >>
    /\ nextNotifId = 1
    /\ inflight = {}
    /\ res = [route |-> "none", user |-> "A", status |-> 0, docs |-> {},
              query |-> NoBody, body |-> NoBody]
    /\ served = 0
    /\ ledger = << >>
    /\ server = Connected
    /\ investments = << >>
    /\ users = << >>
    /\ nextInvId = Len(investments) + 1

NextSummary == \E u \in Users, range \in SummaryRanges : Summary(u, range)

SpecSummary == InitSummary /\ [][NextSummary]_vars

RECURSIVE AmountOfIds(_)
\* the sum of the amounts of a set of stored transactions
AmountOfIds(ids) ==
    IF ids = {} THEN 0
    ELSE LET i == CHOOSE j \in ids : TRUE
         IN transactions[i].amount + AmountOfIds(ids \ {i})

RECURSIVE SumOfValues(_)
\* the sum of the values of a finite map
SumOfValues(f) ==
    IF DOMAIN f = {} THEN 0
    ELSE LET k == CHOOSE j \in DOMAIN f : TRUE
         IN f[k] + SumOfValues([j \in DOMAIN f \ {k} |-> f[j]])

SummaryAnswered == res.route = "reports.summary" /\ res.status = 200

\* the transactions the answered summary was asked over, by type
SummaryInput(type) == {id \in txFind(res.query) : transactions[id].type = type}

\* C9: the summary's income is the sum of the amounts of the income
\* transactions it was asked over, its expenses the sum of the amounts of the
\* expense transactions, and its balance is income - expenses.
C9_BalanceIsIncomeMinusExpenses ==
    SummaryAnswered =>
        /\ res.body.income = AmountOfIds(SummaryInput("income"))
        /\ res.body.expenses = AmountOfIds(SummaryInput("expense"))
        /\ res.body.balance = AmountOfIds(SummaryInput("income"))
                                - AmountOfIds(SummaryInput("expense"))

\* C9 witness: income 50000 and expenses 15000 and 5000 were summarised as
\* income 50000, expenses 20000, balance 30000.
C9_Witness ==
    /\ SummaryAnswered
    /\ {transactions[id].amount : id \in SummaryInput("income")} = {50000}
    /\ {transactions[id].amount : id \in SummaryInput("expense")} = {15000, 5000}
    /\ Cardinality(txFind(res.query)) = 3
    /\ res.body.income = 50000 /\ res.body.expenses = 20000
    /\ res.body.balance = 30000

\* C10: categoryBreakdown has an entry exactly for each category with at least
\* one expense among the transactions summarised, the entry is the sum of that
\* category's expense amounts, and the entries add up to the expenses total.
C10_BreakdownCoversExpenses ==
    SummaryAnswered =>
        LET cb == res.body.categoryBreakdown
        IN /\ DOMAIN cb = {transactions[id].category : id \in SummaryInput("expense")}
           /\ \A c \in DOMAIN cb :
                 cb[c] = AmountOfIds({id \in SummaryInput("expense") :
                                         transactions[id].category = c})
           /\ SumOfValues(cb) = res.body.expenses

\* C10 witness: a summary over an income with a positive amount and two
\* expenses in one category.
C10_Witness ==
    /\ SummaryAnswered
    /\ res.body.income > 0
    /\ Cardinality(SummaryInput("expense")) = 2
    /\ res.body.categoryBreakdown = ("Food" :> 10000)

\* every order in which a query may deliver the stored transactions of a set
\* of ids
Deliveries(ids) ==
    LET n == Cardinality(ids)
        orders == {o \in [1 .. n -> ids] : \A i, j \in 1 .. n : o[i] = o[j] => i = j}
    IN {[i \in 1 .. n |-> transactions[o[i]]] : o \in orders}

\* C11: the summary is a pure fold: an answered summary changes no stored
\* record, and asked again with the same query it answers the same body; its
\* transactionCount is the number of transactions its query selects, and its
\* body is the one the fold gives for every order in which those transactions
\* can be delivered.
C11_SummaryPureFold ==
    /\ [][(Answers("reports.summary") /\ res'.status = 200) =>
            /\ UNCHANGED <<goals, transactions, notifications>>
            /\ (SummaryAnswered /\ res.query = res'.query) => res'.body = res.body]_vars
    /\ [](SummaryAnswered =>
            /\ res.body.transactionCount = Cardinality(txFind(res.query))
            /\ \A arr \in Deliveries(txFind(res.query)) : summary(arr) = res.body)

\* C11 witness: a second summary in a row, over three transactions two of
\* which are expenses of one category with different amounts.
C11_Witness ==
    /\ SummaryAnswered
    /\ served >= 2
    /\ res.body.transactionCount = 3
    /\ \E i, j \in txFind(res.query) :
          /\ transactions[i].type = "expense" /\ transactions[j].type = "expense"
          /\ transactions[i].category = transactions[j].category
          /\ transactions[i].amount # transactions[j].amount


(* ----------------- the category report over a given store --------------- *)

\* the stored transactions the category report is checked over
CatValues ==
    { [user |-> "A", type |-> "expense", amount |-> 15000, category |-> "Housing",   date |-> Today],
      [user |-> "A", type |-> "expense", amount |-> 35000, category |-> "Housing",   date |-> Today],
      [user |-> "A", type |-> "expense", amount |-> 5000,  category |-> "Food",      date |-> Today],
      [user |-> "A", type |-> "expense", amount |-> 0,     category |-> "Food",      date |-> Today],
      [user |-> "A", type |-> "expense", amount |-> 5000,  category |-> "Transport", date |-> Today],
      [user |-> "A", type |-> "expense", amount |-> 5000,  category |-> "Food",
       date |-> newDate(NowYear, NowMonth - 1, 28)],
      [user |-> "A", type |-> "income",  amount |-> 50000, category |-> "Salary",    date |-> Today],
      [user |-> "B", type |-> "expense", amount |-> 5000,  category |-> "Food",      date |-> Today] }

InitCategories ==
    /\ \E n \in 0 .. MaxTx :
          /\ transactions \in [1 .. n -> CatValues]
          /\ nextTxId = n + 1
    /\ goals = << >>
    /\ nextGoalId = 1
    /\ notifications = << >>
    /\ nextNotifId = 1
    /\ inflight = {}
    /\ res = [route |-> "none", user |-> "A", status |-> 0, docs |-> {},
              query |-> NoBody, body |-> NoBody]
    /\ served = 0
    /\ ledger = << >>
    /\ server = Connected
    /\ investments = << >>
    /\ users = << >>
    /\ nextInvId = Len(investments) + 1

NextCategories == \E u \in Users, month \in CategoryMonths : Categories(u, month)

SpecCategories == InitCategories /\ [][NextCategories]_vars

CategoriesAnswered == res.route = "reports.categories" /\ res.status = 200

RECURSIVE SumOver(_, _)
\* the sum of f[k] over the indices k of a set
SumOver(f, ks) ==
    IF ks = {} THEN 0
    ELSE LET k == CHOOSE j \in ks : TRUE IN f[k] + SumOver(f, ks \ {k})

\* the percentages and the amounts of the answered report, entry by entry
Percentages == [k \in DOMAIN res.body.categories |-> res.body.categories[k].percentage]
Amounts == [k \in DOMAIN res.body.categories |-> res.body.categories[k].amount]

\* C12: in the category report total is the sum of the amounts of the
\* categories of the result; when total is 0 every percentage is 0, otherwise
\* each percentage is amount / total * 100 rounded to the nearest whole number
\* (a half rounded up); and the only category report answered with an error
\* is one whose month is no date, whatever the stored transactions.
C12_PercentageIsRounded ==
    /\ [](CategoriesAnswered =>
            LET cs == res.body.categories
                total == res.body.total
            IN /\ total = SumOver(Amounts, DOMAIN cs)
               /\ \A k \in DOMAIN cs :
                     IF total = 0 THEN cs[k].percentage = 0
                     ELSE /\ (2 * cs[k].percentage * total) - total <= 200 * cs[k].amount
                          /\ 200 * cs[k].amount < (2 * cs[k].percentage * total) + total)
    /\ [][(Answers("reports.categories") /\ res'.status # 200) =>
             Categories(res'.user, {BadMonth})]_vars

\* C12 witness: Housing 15000 and Food 5000 reported as total 20000 with
\* percentages 75 and 25.
C12_Witness ==
    /\ CategoriesAnswered
    /\ res.body.total = 20000
    /\ {<<c.category, c.amount, c.percentage>> :
           c \in {res.body.categories[k] : k \in DOMAIN res.body.categories}}
         = {<<"Housing", 15000, 75>>, <<"Food", 5000, 25>>}

\* C13: the percentages of a category report with k categories add up to 0
\* when the total is 0, and to a number within k of 100 otherwise.
C13_PercentagesNear100 ==
    CategoriesAnswered =>
        LET k == Len(res.body.categories)
            sum == SumOver(Percentages, DOMAIN res.body.categories)
        IN IF res.body.total = 0 THEN sum = 0
           ELSE sum - 100 <= k /\ 100 - sum <= k

\* C13 witness: Housing 35000 and Food 5000 are reported as 88 and 13 (87.5
\* and 12.5 rounded), which add up to 101.
C13_Witness ==
    /\ CategoriesAnswered
    /\ Len(res.body.categories) = 2
    /\ res.body.total = 40000
    /\ SumOver(Percentages, DOMAIN res.body.categories) = 101

\* the expense transactions the answered category report was asked over
CategoryInput(c) == {id \in txFind(res.query) : transactions[id].category = c}

\* C14: the category report has an entry exactly for each category among the
\* expense transactions it was asked over, each entry carries the summed
\* amount and the count of the transactions of its category, and the counts
\* add up to the number of those transactions.
C14_AmountAndCount ==
    CategoriesAnswered =>
        LET cs == res.body.categories
        IN /\ {cs[k].category : k \in DOMAIN cs}
                = {transactions[id].category : id \in txFind(res.query)}
           /\ \A k \in DOMAIN cs :
                 /\ cs[k].amount = AmountOfIds(CategoryInput(cs[k].category))
                 /\ "count" \in DOMAIN cs[k]
                 /\ cs[k].count = Cardinality(CategoryInput(cs[k].category))
           /\ SumOver([k \in DOMAIN cs |-> cs[k].count], DOMAIN cs)
                = Cardinality(txFind(res.query))

(* ------------------ the monthly report over a given store -------------- *)

\* the stored transactions the monthly report is checked over
MonthlyValues ==
    { [user |-> "A", type |-> "expense", amount |-> 5000,  category |-> "Food",    date |-> Today],
      [user |-> "A", type |-> "expense", amount |-> 3000,  category |-> "Food",
       date |-> newDate(NowYear, NowMonth, 1)],
      [user |-> "A", type |-> "expense", amount |-> 12000, category |-> "Housing",
       date |-> newDate(NowYear, NowMonth - 1, 5)],
      [user |-> "A", type |-> "expense", amount |-> 4000,  category |-> "Food",
       date |-> newDate(NowYear, NowMonth - 5, 10)],
      [user |-> "A", type |-> "expense", amount |-> 0,     category |-> "Food",    date |-> Today],
      [user |-> "A", type |-> "income",  amount |-> 50000, category |-> "Salary",  date |-> Today],
      [user |-> "B", type |-> "expense", amount |-> 5000,  category |-> "Food",    date |-> Today] }

InitMonthly ==
    /\ \E n \in 0 .. MaxTx :
          /\ transactions \in [1 .. n -> MonthlyValues]
          /\ nextTxId = n + 1
    /\ goals = << >>
    /\ nextGoalId = 1
    /\ notifications = << >>
    /\ nextNotifId = 1
    /\ inflight = {}
    /\ res = [route |-> "none", user |-> "A", status |-> 0, docs |-> {},
              query |-> NoBody, body |-> NoBody]
    /\ served = 0
    /\ ledger = << >>
    /\ server = Connected
    /\ investments = << >>
    /\ users = << >>
    /\ nextInvId = Len(investments) + 1

NextMonthly == \E u \in Users, months \in MonthsInputs : Monthly(u, months)

SpecMonthly == InitMonthly /\ [][NextMonthly]_vars

MonthlyAnswered == res.route = "reports.monthly" /\ res.status = 200

\* the calendar month i months before the current one
MonthBack(i) ==
    [year |-> NowYear + ((NowMonth - i - 1) \div 12),
     month |-> ((NowMonth - i - 1) % 12) + 1]

\* the sum of the amounts of all the expense transactions of a user dated in
\* a calendar month
SpendIn(u, m) ==
    AmountOfIds({id \in DOMAIN transactions :
                    /\ transactions[id].user = u
                    /\ transactions[id].type = "expense"
                    /\ getFullYear(transactions[id].date) = m.year
                    /\ getMonth(transactions[id].date) = m.month})

RECURSIVE MonthsWithSpend(_, _)
\* the names of the months, from i months back to the current one, in which
\* the user has spend, oldest first
MonthsWithSpend(u, i) ==
    IF i < 0 THEN << >>
    ELSE IF SpendIn(u, MonthBack(i)) > 0
         THEN <<monthNames[MonthBack(i).month]>> \o MonthsWithSpend(u, i - 1)
         ELSE MonthsWithSpend(u, i - 1)

\* C15: the monthly series covers the trailing window of N calendar months
\* ending at the current month, N being the months parameter (6 by default):
\* its entries are, oldest first and one per month, the months of that window
\* in which the caller has spend.
C15_SeriesCoversWindow ==
    MonthlyAnswered =>
        [k \in DOMAIN res.body |-> res.body[k].month]
          = MonthsWithSpend(res.user, res.query.months - 1)

\* C16: the monthly series has no entry whose actualSpend is 0, and when no
\* month of the window has spend it is the empty sequence.
C16_NoZeroMonth ==
    MonthlyAnswered =>
        /\ \A k \in DOMAIN res.body : res.body[k].actual # 0
        /\ (\A i \in 0 .. 5 : SpendIn(res.user, MonthBack(i)) = 0) => res.body = << >>

\* C16 witness: a monthly report over a window whose only expenses have
\* amount 0 was answered with the empty sequence.
C16_Witness ==
    /\ MonthlyAnswered
    /\ txFind(res.query) # {}
    /\ \A i \in 0 .. 5 : SpendIn(res.user, MonthBack(i)) = 0
    /\ res.body = << >>

\* C17: for each month of the trailing window in which the caller has expense
\* transactions with positive total, the series has an entry for that month
\* whose actualSpend is the sum of the amounts of all the caller's expense
\* transactions dated in that month and year, whatever their day.
C17_BucketedByMonth ==
    MonthlyAnswered =>
        \A i \in 0 .. res.query.months - 1 :
            SpendIn(res.user, MonthBack(i)) > 0 =>
                \E k \in DOMAIN res.body :
                    /\ res.body[k].month = monthNames[MonthBack(i).month]
                    /\ res.body[k].actual = SpendIn(res.user, MonthBack(i))

(* --------------- the investment roll-up over a given store ------------- *)

\* the stored investments the roll-up is checked over
InvValues ==
    { [user |-> "A", type |-> "stock",       investedAmount |-> 10000, currentValue |-> {12000}],
      [user |-> "A", type |-> "stock",       investedAmount |-> 5000,  currentValue |-> {}],
      [user |-> "A", type |-> "fd",          investedAmount |-> 20000, currentValue |-> {0}],
      [user |-> "A", type |-> "mutual_fund", investedAmount |-> 8000,  currentValue |-> {6000}],
      [user |-> "B", type |-> "stock",       investedAmount |-> 10000, currentValue |-> {15000}] }

InitInvestments ==
    /\ \E n \in 0 .. MaxInv : investments \in [1 .. n -> InvValues]
    /\ goals = << >>
    /\ nextGoalId = 1
    /\ transactions = << >>
    /\ nextTxId = 1
    /\ notifications = << >>
    /\ nextNotifId = 1
    /\ inflight = {}
    /\ res = [route |-> "none", user |-> "A", status |-> 0, docs |-> {},
              query |-> NoBody, body |-> NoBody]
    /\ served = 0
    /\ ledger = << >>
    /\ server = Connected
    /\ users = << >>
    /\ nextInvId = Len(investments) + 1

NextInvestments == \E u \in Users : InvestmentSummary(u)

SpecInvestments == InitInvestments /\ [][NextInvestments]_vars

InvestmentsAnswered == res.route = "reports.investments" /\ res.status = 200

\* the stored investments of the user the roll-up was answered to
Mine == {id \in DOMAIN investments : investments[id].user = res.user}

\* the value an investment counts for: its currentValue, 0 when absent
ValueOf(id) ==
    IF investments[id].currentValue = {} THEN 0
    ELSE CHOOSE v \in investments[id].currentValue : TRUE

\* C18: the investment roll-up is answered 200 with totalInvested the sum of
\* the investedAmount of the caller's investments, totalCurrentValue the sum
\* of their currentValue with an absent value counted as 0, and totalReturns =
\* totalCurrentValue - totalInvested; with no investments the three totals
\* are 0 and byType is empty.
C18_RollUpTotals ==
    /\ res.route = "reports.investments" => res.status = 200
    /\ InvestmentsAnswered =>
          /\ res.body.totalInvested
               = SumOver([id \in Mine |-> investments[id].investedAmount], Mine)
          /\ res.body.totalCurrentValue = SumOver([id \in Mine |-> ValueOf(id)], Mine)
          /\ res.body.totalReturns = res.body.totalCurrentValue - res.body.totalInvested
          /\ Mine = {} =>
                /\ res.body.totalInvested = 0 /\ res.body.totalCurrentValue = 0
                /\ res.body.totalReturns = 0 /\ DOMAIN res.body.byType = {}

\* C18 witness: a roll-up over an investment of 10000 valued 12000 and one of
\* 5000 with no currentValue: totals 15000, 12000 and -3000.
C18_Witness ==
    /\ InvestmentsAnswered
    /\ Cardinality(Mine) = 2
    /\ \E id \in Mine : investments[id].currentValue = {}
    /\ res.body.totalInvested = 15000
    /\ res.body.totalCurrentValue = 12000
    /\ res.body.totalReturns = -3000

\* C19: byType has an entry exactly for each type with at least one of the
\* caller's investments, its counts add up to the number of investments, its
\* invested amounts to totalInvested and its currentValue amounts to
\* totalCurrentValue.
C19_ByTypeConsistent ==
    InvestmentsAnswered =>
        LET byType == res.body.byType
            types == DOMAIN byType
        IN /\ types = {investments[id].type : id \in Mine}
           /\ SumOver([t \in types |-> byType[t].count], types) = Cardinality(Mine)
           /\ SumOver([t \in types |-> byType[t].invested], types)
                = res.body.totalInvested
           /\ SumOver([t \in types |-> byType[t].currentValue], types)
                = res.body.totalCurrentValue

\* C19 witness: three investments of two types, two of them of one type.
C19_Witness ==
    /\ InvestmentsAnswered
    /\ Cardinality(Mine) = 3
    /\ DOMAIN res.body.byType = {"stock", "fd"}
    /\ res.body.byType["stock"].count = 2
    /\ res.body.byType["fd"].count = 1

(* --------------------- the server and its readiness -------------------- *)

InvView(id, i) == [id |-> id, user |-> i.user, type |-> i.type,
                   investedAmount |-> i.investedAmount, currentValue |-> i.currentValue]

\* the type a list-investments request may filter by
InvTypeFilters == {{}, {"stock"}}

\* GET /investments
ListInvestments(u, type) ==
    /\ Serve
    /\ Respond("investments.list", u, 200,
               {InvView(id, investments[id]) :
                   id \in {i \in invFind(u) : type # {} => investments[i].type = The(type)}})
    /\ UNCHANGED <<goals, nextGoalId, transactions, nextTxId, notifications,
                   nextNotifId, inflight, ledger, investments, server, users,
                   nextInvId>>

\* the statuses the handlers of the auth router answer with
AuthStatuses == {200, 201, 400, 401, 404, 500}

\* A request that reaches the auth router: one of its handlers answers; what
\* it does to the users is not followed here.
AuthRouter(u) ==
    /\ Serve
    /\ \E status \in AuthStatuses : Respond("auth", u, status, {})
    /\ UNCHANGED <<goals, nextGoalId, transactions, nextTxId, notifications,
                   nextNotifId, inflight, ledger, investments, server, users,
                   nextInvId>>

\* connectDB().then(result => { if (result && result.success) dbConnected =
\* true })
ConnectDBSucceeds ==
    /\ server.pending
    /\ server' = [dbConnected |-> TRUE, pending |-> FALSE]
    /\ UNCHANGED <<goals, nextGoalId, transactions, nextTxId, notifications,
                   nextNotifId, inflight, res, served, ledger, investments,
                   users, nextInvId>>

\* connectDB() resolves without success: the flag stays false
ConnectDBFails ==
    /\ server.pending
    /\ server' = [server EXCEPT !.pending = FALSE]
    /\ UNCHANGED <<goals, nextGoalId, transactions, nextTxId, notifications,
                   nextNotifId, inflight, res, served, ledger, investments,
                   users, nextInvId>>

\* the guard left out
requireDBMutantNoGuard(mount, u, next) == next

\* app.use(mount, requireDB, router): 503 while dbConnected is false, next()
\* into the router otherwise
requireDB(mount, u, next) ==
    IF ~ server.dbConnected
    THEN /\ Serve
         /\ Respond(mount, u, 503, {})
         /\ UNCHANGED <<goals, nextGoalId, transactions, nextTxId, notifications,
                        nextNotifId, inflight, ledger, investments, server, users,
                   nextInvId>>
    ELSE next

\* GET /api/health
Health(u) ==
    /\ Serve
    /\ RespondReport("health", u, NoBody,
          [status |-> "ok",
           database |-> IF server.dbConnected THEN "connected" ELSE "disconnected"])
    /\ UNCHANGED <<goals, nextGoalId, transactions, nextTxId, notifications,
                   nextNotifId, inflight, ledger, investments, server, users,
                   nextInvId>>

\* the state when the process has started: connectDB() pending
InitReady ==
    /\ goals = << >>
    /\ nextGoalId = 1
    /\ transactions = << >>
    /\ nextTxId = 1
    /\ notifications = << >>
    /\ nextNotifId = 1
    /\ inflight = {}
    /\ res = [route |-> "none", user |-> "A", status |-> 0, docs |-> {},
              query |-> NoBody, body |-> NoBody]
    /\ served = 0
    /\ ledger = << >>
    /\ investments = << >>
    /\ server = [dbConnected |-> FALSE, pending |-> TRUE]
    /\ users = << >>
    /\ nextInvId = Len(investments) + 1

\* the requests sent to the mounted routers
NoRange == [startDate |-> {}, endDate |-> {}]
NoFilter(u) == [user |-> u, type |-> {}, category |-> {}, startDate |-> {}, endDate |-> {}]

NextReady ==
    \/ ConnectDBSucceeds
    \/ ConnectDBFails
    \/ \E u \in Users : requireDB("/api/auth", u, AuthRouter(u))
    \/ \E u \in Users : requireDB("/api/transactions", u, ListTransactions(u, NoFilter(u)))
    \/ \E u \in Users : requireDB("/api/goals", u, ListGoals(u))
    \/ \E u \in Users : requireDB("/api/goals", u, SeedGoals(u))
    \/ \E u \in Users, t \in InvTypeFilters :
          requireDB("/api/investments", u, ListInvestments(u, t))
    \/ \E u \in Users : requireDB("/api/reports", u, Summary(u, NoRange))
    \/ \E u \in Users : requireDB("/api/reports", u, InvestmentSummary(u))
    \/ \E u \in Users : requireDB("/api/notifications", u, ListNotifications(u))
    \/ \E u \in Users : requireDB("/api/notifications", u, SeedNotifications(u))
    \/ \E u \in Users : Health(u)

SpecReady == InitReady /\ [][NextReady]_vars

\* the step serves a request
Request == served' = served + 1

\* C20: while dbConnected is false every request to the auth, transactions,
\* goals, investments, reports and notifications routes is answered 503 and
\* leaves every stored record as it was; the health check is answered 200
\* with status ok whatever the flag, and reports the database as connected
\* exactly when the flag is true.
C20_GuardedUntilReady ==
    [][Request =>
         IF Answers("health")
         THEN /\ res'.status = 200
              /\ res'.body.status = "ok"
              /\ res'.body.database = "connected" <=> server.dbConnected
              /\ res'.body.database \in {"connected", "disconnected"}
         ELSE ~ server.dbConnected =>
                 /\ res'.status = 503
                 /\ res'.route \in {"/api/auth", "/api/transactions", "/api/goals",
                                    "/api/investments", "/api/reports",
                                    "/api/notifications"}
                 /\ UNCHANGED <<goals, nextGoalId, transactions, nextTxId,
                                notifications, nextNotifId, investments>>]_vars

\* C20 witness: with the flag still false, a request to the goals routes was
\* answered 503 and then the health check was answered 200, ok, database
\* disconnected.
C20_Witness ==
    /\ ~ server.dbConnected
    /\ served >= 2
    /\ res.route = "health" /\ res.status = 200
    /\ res.body.database = "disconnected"
    /\ goals = << >> /\ notifications = << >>

(* ------------------- every route, two users side by side ---------------- *)

\* the owner a stored record or a returned document names
OwnerOf(doc) == IF "userId" \in DOMAIN doc THEN doc.userId ELSE doc.user

\* the ids a request names in :id: for each user the oldest record of a
\* collection, and an id that names no record
oldestOf(coll, u) ==
    LET mine == {i \in DOMAIN coll : OwnerOf(coll[i]) = u}
    IN IF mine = {} THEN {} ELSE {CHOOSE i \in mine : \A j \in mine : i <= j}

AccessGoalIds == {NoId} \cup UNION {oldestOf(goals, u) : u \in Users}
AccessTxIds == {NoId} \cup UNION {oldestOf(transactions, u) : u \in Users}
AccessNotifIds == {NoId} \cup UNION {oldestOf(notifications, u) : u \in Users}

\* the request bodies and queries sent on these routes: one that passes the
\* validators and one that does not, with and without an owner field
AccessGoalBodies ==
    {b \in GoalBodies : b.target \in {{Num(15)}, {Num(-1)}} /\ b.current = {}}
AccessAmounts == {{}, {Num(3)}}
AccessTxBodies ==
    {b \in TxBodies : b.amount \in {{}, {Num(5)}, {Num(0)}}
                      /\ b.type \in {{"expense"}, {"transfer"}}}
AccessTxQueries ==
    [user : Users, type : {{}, {"expense"}}, category : {{}}, startDate : {{}},
     endDate : {{}}]
AccessRanges == {r \in SummaryRanges : r.endDate = {}}

NextAccess ==
    \/ \E u \in Users : ListGoals(u)
    \/ \E u \in Users, b \in AccessGoalBodies : CreateGoal(u, b)
    \/ \E u \in Users, id \in AccessGoalIds, b \in AccessGoalBodies : UpdateGoal(u, id, b)
    \/ \E u \in Users, id \in AccessGoalIds : DeleteGoal(u, id)
    \/ \E u \in Users, id \in AccessGoalIds, a \in AccessAmounts : AddFunds(u, id, a)
    \/ \E u \in Users : SeedGoals(u)
    \/ \E u \in Users, q \in AccessTxQueries : ListTransactions(u, q)
    \/ \E u \in Users, b \in AccessTxBodies : CreateTransaction(u, b)
    \/ \E u \in Users, id \in AccessTxIds, b \in AccessTxBodies :
          UpdateTransaction(u, id, b)
    \/ \E u \in Users, id \in AccessTxIds : DeleteTransaction(u, id)
    \/ \E u \in Users : SeedTransactions(u)
    \/ \E u \in Users, r \in AccessRanges : Summary(u, r)
    \/ \E u \in Users : ListNotifications(u)
    \/ \E u \in Users : UnreadCount(u)
    \/ \E u \in Users, b \in NotifBodies : CreateNotification(u, b)
    \/ \E u \in Users : SeedNotifications(u)
    \/ \E u \in Users, id \in AccessNotifIds : MarkRead(u, id)
    \/ \E u \in Users : MarkAllRead(u)
    \/ \E u \in Users, id \in AccessNotifIds : DeleteNotification(u, id)
    \/ \E u \in Users : DeleteAllNotifications(u)

SpecAccess == Init /\ [][NextAccess]_vars

\* the records of a collection that the caller of the step does not own are
\* all still there afterwards and as they were, and every record the step
\* added is owned by its caller
OthersUntouched(coll, collAfter, u) ==
    /\ \A id \in DOMAIN coll :
          OwnerOf(coll[id]) # u => id \in DOMAIN collAfter /\ collAfter[id] = coll[id]
    /\ \A id \in DOMAIN collAfter \ DOMAIN coll : OwnerOf(collAfter[id]) = u

\* the step is an update, delete, add-funds or mark-read request of u that
\* names the id of a record owned by somebody else
NamesAnothersRecord(u) ==
    \/ \E id \in AccessGoalIds :
          /\ id \in DOMAIN goals /\ goals[id].user # u
          /\ \/ \E b \in AccessGoalBodies : UpdateGoal(u, id, b)
             \/ DeleteGoal(u, id)
             \/ \E a \in AccessAmounts : AddFunds(u, id, a)
    \/ \E id \in AccessTxIds :
          /\ id \in DOMAIN transactions /\ transactions[id].user # u
          /\ \/ \E b \in AccessTxBodies : UpdateTransaction(u, id, b)
             \/ DeleteTransaction(u, id)
    \/ \E id \in AccessNotifIds :
          /\ id \in DOMAIN notifications /\ notifications[id].userId # u
          /\ (MarkRead(u, id) \/ DeleteNotification(u, id))

\* C8: every read and every mutation is scoped to the caller: a request of
\* user A returns no document owned by another user, leaves every record
\* owned by another user stored and unchanged, creates only records owned by
\* A, and when it names another user's record id it is answered 404 (400 when
\* its body fails validation first).
C8_ScopedToCaller ==
    [][LET u == res'.user
       IN /\ \A d \in res'.docs : OwnerOf(d) = u
          /\ OthersUntouched(goals, goals', u)
          /\ OthersUntouched(transactions, transactions', u)
          /\ OthersUntouched(notifications, notifications', u)
          /\ NamesAnothersRecord(u) => res'.status \in {400, 404}]_vars

(* --------------------------- authentication ---------------------------- *)

\* jwt.sign({ id }, process.env.JWT_SECRET): a token names a user id and is
\* signed with the server's secret
generateToken(id) == [id |-> id, signed |-> TRUE]

\* a token naming a user that the server's secret did not sign
forgedToken(id) == [id |-> id, signed |-> FALSE]

\* the Authorization header of a request: absent, a forged token, or a token
\* the server issued
Authorizations ==
    {{}} \cup {{forgedToken(u)} : u \in Users} \cup {{generateToken(u)} : u \in Users}

\* the user ids a header authenticates: none, or the one its token names
verify(authorization) ==
    IF authorization # {} /\ The(authorization).signed
    THEN {The(authorization).id} ELSE {}

\* the caller recorded for a request that no token identifies
Nobody == "nobody"

\* the auth middleware in front of a handler: 401 without a verified token,
\* otherwise req.user is the user the token names and the handler runs
auth(route, authorization, u, next) ==
    IF verify(authorization) = {}
    THEN /\ Serve
         /\ Respond(route, Nobody, 401, {})
         /\ UNCHANGED <<goals, nextGoalId, transactions, nextTxId, notifications,
                        nextNotifId, inflight, ledger, investments, server, users,
                   nextInvId>>
    ELSE u \in verify(authorization) /\ next

\* router.get('/', auth, ...) of the transactions router, its auth left out
GetTransactionsMutantNoAuth(h, u) ==
    requireDB("/api/transactions", u, ListTransactions(u, NoFilter(u)))

\* the protected routes as mounted: requireDB, then auth, then the handler
GetTransactions(h, u) ==
    requireDB("/api/transactions", u,
              auth("transactions.list", h, u, ListTransactions(u, NoFilter(u))))
PostTransactions(h, u, b) ==
    requireDB("/api/transactions", u,
              auth("transactions.create", h, u, CreateTransaction(u, b)))
DeleteTransactions(h, u, id) ==
    requireDB("/api/transactions", u,
              auth("transactions.delete", h, u, DeleteTransaction(u, id)))
GetGoals(h, u) ==
    requireDB("/api/goals", u, auth("goals.list", h, u, ListGoals(u)))
PutGoalsAddFunds(h, u, id, amount) ==
    requireDB("/api/goals", u, auth("goals.addFunds", h, u, AddFunds(u, id, amount)))
DeleteGoals(h, u, id) ==
    requireDB("/api/goals", u, auth("goals.delete", h, u, DeleteGoal(u, id)))
GetInvestments(h, u) ==
    requireDB("/api/investments", u,
              auth("investments.list", h, u, ListInvestments(u, {})))
GetReportsSummary(h, u) ==
    requireDB("/api/reports", u, auth("reports.summary", h, u, Summary(u, NoRange)))

\* the records stored when the requests arrive: each user has a transaction,
\* a goal and an investment
InitAuth ==
    /\ transactions = <<[user |-> "A", type |-> "expense", amount |-> 15000,
                         category |-> "Housing", date |-> Today],
                        [user |-> "B", type |-> "income", amount |-> 50000,
                         category |-> "Salary", date |-> Today]>>
    /\ nextTxId = 3
    /\ goals = <<[user |-> "A", targetAmount |-> 100000, currentAmount |-> 45000,
                  status |-> "active"],
                 [user |-> "B", targetAmount |-> 50000, currentAmount |-> 20000,
                  status |-> "active"]>>
    /\ nextGoalId = 3
    /\ ledger = <<Opened(45000), Opened(20000)>>
    /\ investments = <<[user |-> "A", type |-> "stock", investedAmount |-> 10000,
                        currentValue |-> {12000}],
                       [user |-> "B", type |-> "fd", investedAmount |-> 20000,
                        currentValue |-> {}]>>
    /\ notifications = << >>
    /\ nextNotifId = 1
    /\ inflight = {}
    /\ res = [route |-> "none", user |-> "A", status |-> 0, docs |-> {},
              query |-> NoBody, body |-> NoBody]
    /\ served = 0
    /\ server = Connected
    /\ users = << >>
    /\ nextInvId = Len(investments) + 1

\* the bodies, ids and amounts the requests carry
AuthTxBodies == {b \in TxBodies : b.amount = {Num(5)} /\ b.type = {"expense"}}
AuthIds == {1, 2}
AuthAmounts == {{Num(60000)}}

NextAuth ==
    \/ \E h \in Authorizations, u \in Users : GetTransactions(h, u)
    \/ \E h \in Authorizations, u \in Users, b \in AuthTxBodies : PostTransactions(h, u, b)
    \/ \E h \in Authorizations, u \in Users, id \in AuthIds : DeleteTransactions(h, u, id)
    \/ \E h \in Authorizations, u \in Users : GetGoals(h, u)
    \/ \E h \in Authorizations, u \in Users, id \in AuthIds, a \in AuthAmounts :
          PutGoalsAddFunds(h, u, id, a)
    \/ \E h \in Authorizations, u \in Users, id \in AuthIds : DeleteGoals(h, u, id)
    \/ \E h \in Authorizations, u \in Users : GetInvestments(h, u)
    \/ \E h \in Authorizations, u \in Users : GetReportsSummary(h, u)

SpecAuth == InitAuth /\ [][NextAuth]_vars

\* the step serves a request to a protected route that carries this header
ProtectedRequest(h) ==
    \E u \in Users :
       \/ GetTransactions(h, u)
       \/ \E b \in AuthTxBodies : PostTransactions(h, u, b)
       \/ \E id \in AuthIds : DeleteTransactions(h, u, id)
       \/ GetGoals(h, u)
       \/ \E id \in AuthIds, a \in AuthAmounts : PutGoalsAddFunds(h, u, id, a)
       \/ \E id \in AuthIds : DeleteGoals(h, u, id)
       \/ GetInvestments(h, u)
       \/ GetReportsSummary(h, u)

\* C21: a request to a protected route (transactions, goals, investments,
\* reports summary) whose Authorization header is absent or carries a token
\* the server did not sign is answered 401, its answer carries no stored
\* record and no report, and every stored record is as it was.
C21_Unauthenticated401 ==
    [][\A h \in Authorizations :
          (verify(h) = {} /\ ProtectedRequest(h)) =>
             /\ res'.status = 401
             /\ res'.docs = {} /\ res'.body = NoBody
             /\ UNCHANGED <<goals, nextGoalId, transactions, nextTxId,
                            notifications, nextNotifId, investments>>]_vars

\* C21 witness: after an authenticated request deleted A's transaction, a
\* request without a valid token was answered 401 while the other records are
\* still stored.
C21_Witness ==
    /\ res.status = 401 /\ res.user = Nobody
    /\ served >= 2
    /\ DOMAIN transactions = {2}
    /\ DOMAIN goals = {1, 2}

(* ------------------------------ accounts ------------------------------- *)

\* A text is the tuple of its characters.  A stored user is [name, email,
\* password], the password as the User model's pre-save hook hashed it; a
\* user's _id is its index in users.

\* the _id the store gives the n-th user created
ObjectIds == <<"u1", "u2", "u3", "u4", "u5", "u6">>

\* the texts the requests carry
NameT == <<"T">>
Blank == <<" ">>
EmailA == <<"a", "@", "b", ".", "c", "o">>
EmailUpperA == <<"A", "@", "b", ".", "c", "o">>
EmailC == <<"c", "@", "b", ".", "c", "o">>
NotAnEmail == <<"n", "o", "t", "-", "a", "n">>
EmailShortTld == <<"a", "@", "b", ".", "c">>
OldPassword == <<"O", "l", "d", "@", "1", "2">>
NewPassword == <<"N", "e", "w", "@", "4", "5">>
ShortPassword == <<"1", "2", "3">>

\* String.prototype.trim
RECURSIVE trim(_)
trim(s) ==
    IF s = << >> THEN s
    ELSE IF Head(s) = " " THEN trim(Tail(s))
    ELSE IF s[Len(s)] = " " THEN trim(SubSeq(s, 1, Len(s) - 1))
    ELSE s

\* String.prototype.split on one character
RECURSIVE split(_, _)
split(s, c) ==
    IF \A i \in DOMAIN s : s[i] # c THEN <<s>>
    ELSE LET k == CHOOSE i \in DOMAIN s : s[i] = c /\ \A j \in 1 .. (i - 1) : s[j] # c
         IN <<SubSeq(s, 1, k - 1)>> \o split(SubSeq(s, k + 1, Len(s)), c)

UpperCase == {"A", "N", "O", "T"}
LowerCase == {"a", "b", "c", "d", "e", "l", "n", "o", "t", "w"}
Digits == {"1", "2", "3", "4", "5"}

\* String.prototype.toLowerCase
toLowerCase(s) ==
    [i \in DOMAIN s |->
        CASE s[i] = "A" -> "a" [] s[i] = "N" -> "n" [] s[i] = "O" -> "o"
          [] s[i] = "T" -> "t" [] OTHER -> s[i]]

\* validator.js isEmail: exactly one part before the last @, made of
\* non-empty dot-separated runs of permitted characters, and after it a
\* domain of at least two labels whose last is two or more letters
isEmailUserPart(p) ==
    p # << >> /\ \A i \in DOMAIN p : p[i] \in UpperCase \cup LowerCase \cup Digits \cup {"-"}
isDomainLabel(p) ==
    /\ p # << >>
    /\ \A i \in DOMAIN p : p[i] \in UpperCase \cup LowerCase \cup Digits \cup {"-"}
    /\ p[1] # "-" /\ p[Len(p)] # "-"
isFQDN(d) ==
    LET parts == split(d, ".")
        tld == parts[Len(parts)]
    IN /\ Len(parts) >= 2
       /\ Len(tld) >= 2 /\ \A i \in DOMAIN tld : tld[i] \in UpperCase \cup LowerCase
       /\ \A i \in DOMAIN parts : isDomainLabel(parts[i])
isEmail(field) ==
    /\ field # {}
    /\ LET parts == split(The(field), "@")
       IN /\ Len(parts) = 2
          /\ \A p \in {split(parts[1], ".")[i] : i \in DOMAIN split(parts[1], ".")} :
                isEmailUserPart(p)
          /\ isFQDN(parts[2])

\* validator.js normalizeEmail with its defaults: the address in lower case
normalizeEmail(email) == toLowerCase(email)

\* isLength without its min option
isLengthMutantNoMin(field, min) == field # {}

\* isLength({ min }): undefined counts as the empty text
isLength(field, min) == field # {} /\ Len(The(field)) >= min

\* notEmpty() without trim
notEmptyText(field) == field # {} /\ The(field) # << >>

\* trim().notEmpty()
trimNotEmpty(field) == field # {} /\ trim(The(field)) # << >>

\* the User model's pre-save hook and comparePassword
hash(password) == <<"hash", password>>
comparePassword(user, candidate) == user.password = hash(candidate)

\* findOne({ email }) finding nobody
findOneByEmailMutantNone(email) == {}

\* User.findOne({ email })
findOneByEmail(email) == {i \in DOMAIN users : users[i].email = email}

\* User.findById(id)
findById(id) == {i \in DOMAIN users : users[i].id = id}

RespondAuth(route, u, status, query, body) ==
    res' = [route |-> route, user |-> u, status |-> status, docs |-> {},
            query |-> query, body |-> body]

\* what a register request body may carry
RegisterBodies ==
    [name : {{NameT}}, email : {{EmailA}, {EmailUpperA}, {EmailC}},
     password : {{OldPassword}}]
    \cup [name : {{}, {Blank}}, email : {{EmailA}}, password : {{OldPassword}}]
    \cup [name : {{NameT}}, email : {{}, {NotAnEmail}, {EmailShortTld}},
          password : {{OldPassword}}]
    \cup [name : {{NameT}}, email : {{EmailC}}, password : {{}, {ShortPassword}}]
    \cup {[name |-> {}, email |-> {}, password |-> {}]}

\* POST /auth/register
Register(b) ==
    /\ Serve
    /\ IF ~ (trimNotEmpty(b.name) /\ isEmail(b.email) /\ isLength(b.password, 6))
       THEN /\ RespondAuth("auth.register", Nobody, 400, b, NoBody)
            /\ UNCHANGED users
       ELSE LET email == normalizeEmail(The(b.email))
            IN IF findOneByEmail(email) # {}
               THEN /\ RespondAuth("auth.register", Nobody, 400, b, NoBody)
                    /\ UNCHANGED users
               ELSE LET id == ObjectIds[Len(users) + 1]
                    IN /\ users' = Append(users, [id |-> id,
                                                  name |-> trim(The(b.name)),
                                                  email |-> email,
                                                  password |-> hash(The(b.password))])
                       /\ RespondAuth("auth.register", Nobody, 201, b,
                                      [id |-> id, email |-> email,
                                       token |-> generateToken(id)])
    /\ UNCHANGED <<goals, nextGoalId, transactions, nextTxId, notifications,
                   nextNotifId, inflight, ledger, investments, server, nextInvId>>

\* what a login request body may carry
LoginBodies ==
    [email : {{}, {EmailA}, {EmailUpperA}, {EmailC}},
     password : {{}, {OldPassword}, {NewPassword}}]

\* POST /auth/login
Login(b) ==
    /\ Serve
    /\ IF ~ (isEmail(b.email) /\ notEmptyText(b.password))
       THEN RespondAuth("auth.login", Nobody, 400, b, NoBody)
       ELSE LET found == findOneByEmail(normalizeEmail(The(b.email)))
            IN IF found = {}
               THEN RespondAuth("auth.login", Nobody, 401, b, NoBody)
               ELSE LET user == users[The(found)]
                    IN IF ~ comparePassword(user, The(b.password))
                       THEN RespondAuth("auth.login", Nobody, 401, b, NoBody)
                       ELSE RespondAuth("auth.login", user.id, 200, b,
                                        [id |-> user.id, email |-> user.email,
                                         token |-> generateToken(user.id)])
    /\ UNCHANGED <<goals, nextGoalId, transactions, nextTxId, notifications,
                   nextNotifId, inflight, ledger, investments, server, users,
                   nextInvId>>

\* what a change-password request body may carry
PasswordBodies ==
    [currentPassword : {{}, {<< >>}, {OldPassword}, {NewPassword}},
     newPassword : {{}, {ShortPassword}, {OldPassword}, {NewPassword}}]

\* the handler of PUT /auth/password
ChangePassword(u, b) ==
    /\ Serve
    /\ IF ~ (notEmptyText(b.currentPassword) /\ isLength(b.newPassword, 6))
       THEN /\ RespondAuth("auth.password", u, 400, b, NoBody)
            /\ UNCHANGED users
       ELSE IF findById(u) = {}
       THEN /\ RespondAuth("auth.password", u, 404, b, NoBody)
            /\ UNCHANGED users
       ELSE IF ~ comparePassword(users[The(findById(u))], The(b.currentPassword))
       THEN /\ RespondAuth("auth.password", u, 400, b, NoBody)
            /\ UNCHANGED users
       ELSE IF comparePassword(users[The(findById(u))], The(b.newPassword))
       THEN /\ RespondAuth("auth.password", u, 400, b, NoBody)
            /\ UNCHANGED users
       ELSE /\ users' = [users EXCEPT
                            ![The(findById(u))].password = hash(The(b.newPassword))]
            /\ RespondAuth("auth.password", u, 200, b, NoBody)
    /\ UNCHANGED <<goals, nextGoalId, transactions, nextTxId, notifications,
                   nextNotifId, inflight, ledger, investments, server, nextInvId>>

\* router.put('/password', auth, ...)
PutPassword(h, u, b) ==
    requireDB("/api/auth", u, auth("auth.password", h, u, ChangePassword(u, b)))

\* the users registered when the requests arrive: none, or one
InitUsers ==
    /\ users \in {<< >>,
                  <<[id |-> ObjectIds[1], name |-> NameT, email |-> EmailA,
                     password |-> hash(OldPassword)]>>}
    /\ goals = << >>
    /\ nextGoalId = 1
    /\ transactions = << >>
    /\ nextTxId = 1
    /\ notifications = << >>
    /\ nextNotifId = 1
    /\ inflight = {}
    /\ res = [route |-> "none", user |-> Nobody, status |-> 0, docs |-> {},
              query |-> NoBody, body |-> NoBody]
    /\ served = 0
    /\ ledger = << >>
    /\ investments = << >>
    /\ nextInvId = 1
    /\ server = Connected

\* the ids tokens name and the headers sent with a change-password request
UserIds == {ObjectIds[1], ObjectIds[2]}
UserAuthorizations ==
    {{}, {forgedToken(ObjectIds[1])}} \cup {{generateToken(id)} : id \in UserIds}

NextUsers ==
    \/ \E b \in RegisterBodies : requireDB("/api/auth", Nobody, Register(b))
    \/ \E b \in LoginBodies : requireDB("/api/auth", Nobody, Login(b))
    \/ \E h \in UserAuthorizations, u \in UserIds, b \in PasswordBodies :
          PutPassword(h, u, b)

SpecUsers == InitUsers /\ [][NextUsers]_vars

\* the body asks for an account under an address that, letter case aside,
\* a stored user already has
AlreadyRegistered(b) ==
    \E i \in DOMAIN users : toLowerCase(users[i].email) = toLowerCase(The(b.email))

\* the body has a name that is not blank, a well-formed email and a password
\* of six characters or more
WellFormed(b) ==
    /\ b.name # {} /\ trim(The(b.name)) # << >>
    /\ isEmail(b.email)
    /\ b.password # {} /\ Len(The(b.password)) >= 6

\* C22: no two stored users ever share an email.  A register request is
\* answered 201 with a token, adding exactly one user, when its name is
\* non-empty, its email well-formed and not yet registered and its password
\* has 6 characters or more; otherwise (empty body, malformed email, short
\* password, email already registered) it is answered 400 and the users are
\* unchanged.
C22_RegisterKeepsEmailsUnique ==
    /\ [](\A i, j \in DOMAIN users : users[i].email = users[j].email => i = j)
    /\ [][Answers("auth.register") =>
            LET b == res'.query
            IN IF WellFormed(b) /\ ~ AlreadyRegistered(b)
               THEN /\ res'.status = 201
                    /\ res'.body.token = generateToken(users'[Len(users')].id)
                    /\ \A i \in DOMAIN users : users[i].id # users'[Len(users')].id
                    /\ Len(users') = Len(users) + 1
                    /\ SubSeq(users', 1, Len(users)) = users
                    /\ toLowerCase(users'[Len(users')].email) = toLowerCase(The(b.email))
               ELSE /\ res'.status = 400
                    /\ users' = users]_vars

\* C22 witness: two users are registered under different addresses, and the
\* last request, well-formed but for an address already registered in
\* another letter case, was answered 400.
C22_Witness ==
    /\ Len(users) = 2
    /\ res.route = "auth.register" /\ res.status = 400
    /\ res.query.email = {EmailUpperA}
    /\ WellFormed(res.query)

\* the stored password of the user with _id u is the hash of this text
IsPasswordOf(u, field) ==
    field # {} /\ \E i \in DOMAIN users : users[i].id = u /\ users[i].password = hash(The(field))

\* the _ids of the stored users
Registered == {users[i].id : i \in DOMAIN users}

\* C23: a change-password request of a stored user replaces the stored
\* password, by the new one, only when currentPassword is the stored
\* password, newPassword has 6 characters or more and differs from it;
\* otherwise (currentPassword empty or wrong, newPassword short or equal to
\* the current one) it is answered 400 and no stored password changes, and a
\* login with the user's email and the stored password is answered 200.
C23_PasswordReplacedOnlyWhenVerified ==
    [][/\ (Answers("auth.password") /\ res'.user \in Registered) =>
            LET b == res'.query
                u == res'.user
            IN IF /\ IsPasswordOf(u, b.currentPassword)
                  /\ b.newPassword # {} /\ Len(The(b.newPassword)) >= 6
                  /\ The(b.newPassword) # The(b.currentPassword)
               THEN /\ res'.status = 200
                    /\ \A i \in DOMAIN users :
                          users'[i] = IF users[i].id = u
                                      THEN [users[i] EXCEPT
                                              !.password = hash(The(b.newPassword))]
                                      ELSE users[i]
                    /\ DOMAIN users' = DOMAIN users
                    /\ users' # users
               ELSE /\ res'.status = 400
                    /\ users' = users
       /\ (Answers("auth.password") /\ res'.user \notin Registered) => users' = users
       /\ Answers("auth.login") =>
            /\ users' = users
            /\ res'.status = 200 <=>
                  \E i \in DOMAIN users :
                     /\ res'.query.email # {}
                     /\ toLowerCase(The(res'.query.email)) = users[i].email
                     /\ IsPasswordOf(users[i].id, res'.query.password)]_vars

\* C23 witness: a stored user's change-password request with a wrong
\* currentPassword and a good newPassword was answered 400, and the password
\* stored is still the old one.
C23_Witness ==
    /\ res.route = "auth.password" /\ res.status = 400
    /\ res.user \in Registered
    /\ res.query = [currentPassword |-> {NewPassword}, newPassword |-> {NewPassword}]
    /\ IsPasswordOf(res.user, {OldPassword})

(* ---------------- the rule on stored transactions ---------------------- *)

\* the bodies sent to create and update: a type absent, listed or not listed,
\* with an amount absent, negative, zero, or positive and sent as text
TxRuleBodies ==
    [type : {{}, {"expense"}, {"transfer"}}, category : {{"Food"}},
     amount : {{}, {Num(-1)}, {Num(0)}, {Str(7)}},
     date : {{}}, user : {{}}]

TxRuleIds == {NoId} \cup UNION {oldestOf(transactions, u) : u \in Users}

NextTxRule ==
    \/ \E u \in Users, b \in TxRuleBodies : CreateTransaction(u, b)
    \/ \E u \in Users, id \in TxRuleIds, b \in TxRuleBodies : UpdateTransaction(u, id, b)
    \/ \E u \in Users, id \in TxRuleIds : DeleteTransaction(u, id)
    \/ \E u \in Users : SeedTransactions(u)

SpecTxRule == Init /\ [][NextTxRule]_vars

\* the body carries a type other than income and expense, or a negative amount
BreaksRule(b) ==
    \/ b.type # {} /\ The(b.type) \notin {"income", "expense"}
    \/ b.amount # {} /\ The(b.amount).v < 0

MonthFilterValues ==
    { [user |-> "A", type |-> "expense", amount |-> 1,  category |-> "Food",
       date |-> newDate(NowYear, NowMonth, 1)],
      [user |-> "A", type |-> "expense", amount |-> 2,  category |-> "Food",
       date |-> newDate(NowYear, NowMonth, daysInMonth(NowYear, NowMonth))],
      [user |-> "A", type |-> "expense", amount |-> 4,  category |-> "Housing",
       date |-> newDate(NowYear, NowMonth, daysInMonth(NowYear, NowMonth)) + NowHour],
      [user |-> "A", type |-> "expense", amount |-> 8,  category |-> "Food",
       date |-> newDate(NowYear, NowMonth - 1, daysInMonth(NowYear, NowMonth - 1)) + 23],
      [user |-> "A", type |-> "expense", amount |-> 16, category |-> "Food",
       date |-> newDate(NowYear, NowMonth + 1, 1)],
      [user |-> "A", type |-> "income",  amount |-> 32, category |-> "Salary",
       date |-> Today],
      [user |-> "B", type |-> "expense", amount |-> 64, category |-> "Food",
       date |-> Today] }

InitMonthFilter ==
    /\ \E n \in 0 .. MaxTx :
          /\ transactions \in [1 .. n -> MonthFilterValues]
          /\ nextTxId = n + 1
    /\ goals = << >>
    /\ nextGoalId = 1
    /\ notifications = << >>
    /\ nextNotifId = 1
    /\ inflight = {}
    /\ res = [route |-> "none", user |-> "A", status |-> 0, docs |-> {},
              query |-> NoBody, body |-> NoBody]
    /\ served = 0
    /\ ledger = << >>
    /\ server = Connected
    /\ investments = << >>
    /\ users = << >>
    /\ nextInvId = 1

MonthFilterMonths ==
    {{[year |-> NowYear, month |-> NowMonth]}, {[year |-> NowYear, month |-> NowMonth - 1]}}

NextMonthFilter == \E u \in Users, month \in MonthFilterMonths : Categories(u, month)

SpecMonthFilter == InitMonthFilter /\ [][NextMonthFilter]_vars

\* the caller's stored expenses dated in the calendar month the answered
\* report was asked for
ExpensesOfMonth ==
    {id \in DOMAIN transactions :
        /\ transactions[id].user = res.user
        /\ transactions[id].type = "expense"
        /\ \E start \in res.query.startDate :
              /\ getFullYear(transactions[id].date) = getFullYear(start)
              /\ getMonth(transactions[id].date) = getMonth(start)}

\* C25: with a month parameter the category report covers exactly the
\* caller's expenses dated inside that calendar month, from the first instant
\* of its first day to the last instant of its last day: its total and its
\* per-category amounts are the sums over those expenses, an expense at any
\* time of the last day included.
C25_CoversWholeMonth ==
    (CategoriesAnswered /\ res.query.startDate # {}) =>
        /\ res.body.total = AmountOfIds(ExpensesOfMonth)
        /\ \A k \in DOMAIN res.body.categories :
              res.body.categories[k].amount =
                 AmountOfIds({id \in ExpensesOfMonth :
                                 transactions[id].category = res.body.categories[k].category})

(* ------------------------ investment routes ---------------------------- *)

\* isIn([...]) of the route validators
validatorTypes ==
    {"stock", "mutual_fund", "fd", "ppf", "nps", "gold", "real_estate", "crypto", "other"}

isInvType(field) == field # {} /\ The(field) \in validatorTypes

\* what an investment request body may carry
InvBodies ==
    [name : {{"n"}}, type : {{"stock"}, {"gold"}}, investedAmount : {{Num(10)}},
     currentValue : {{}, {Num(12)}}, purchaseDate : {{}, {Today}}, user : {{}, {"B"}}]
    \cup [name : {{"n"}}, type : {{}, {"bond"}, {"fd"}},
          investedAmount : {{}, {Num(-1)}, {Str(7)}},
          currentValue : {{}}, purchaseDate : {{Today}}, user : {{}}]
    \cup [name : {{}, {""}}, type : {{}, {"stock"}}, investedAmount : {{}, {Num(0)}},
          currentValue : {{}, {Num(-1)}}, purchaseDate : {{}, {BadDate}}, user : {{}}]

\* the document validation of Investment.create: name, type within the
\* schema's enum, investedAmount >= 0 and purchaseDate are required, and
\* currentValue is >= 0
schemaValid(doc) ==
    /\ notEmpty(doc.name)
    /\ doc.type # {} /\ The(doc.type) \in InvestmentTypes
    /\ isFloatMin(doc.investedAmount, 0)
    /\ optionalIsFloatMin(doc.currentValue, 0)
    /\ doc.purchaseDate # {}

\* POST /investments
CreateInvestment(u, b) ==
    /\ Serve
    /\ IF ~ ( /\ notEmpty(b.name)
              /\ isInvType(b.type)
              /\ isFloatMin(b.investedAmount, 0)
              /\ optionalIsFloatMin(b.currentValue, 0)
              /\ (b.purchaseDate = {} \/ isISO8601(b.purchaseDate)) )
       THEN /\ Respond("investments.create", u, 400, {})
            /\ UNCHANGED <<investments, nextInvId>>
       ELSE IF ~ schemaValid(b)
       THEN /\ Respond("investments.create", u, 500, {})
            /\ UNCHANGED <<investments, nextInvId>>
       ELSE LET doc == [user |-> u, type |-> The(b.type),
                        investedAmount |-> castNumber(The(b.investedAmount)),
                        currentValue |-> IF b.currentValue = {} THEN {0}
                                         ELSE {castNumber(The(b.currentValue))}]
            IN /\ investments' = (nextInvId :> doc) @@ investments
               /\ nextInvId' = nextInvId + 1
               /\ Respond("investments.create", u, 201, {InvView(nextInvId, doc)})
    /\ UNCHANGED <<goals, nextGoalId, transactions, nextTxId, notifications,
                   nextNotifId, inflight, ledger, server, users>>

\* findOneAndUpdate(filter, req.body): every path the body carries is set
invUpdated(i, b) ==
    [user |-> IF b.user = {} THEN i.user ELSE The(b.user),
     type |-> IF b.type = {} THEN i.type ELSE The(b.type),
     investedAmount |-> IF b.investedAmount = {} THEN i.investedAmount
                        ELSE castNumber(The(b.investedAmount)),
     currentValue |-> IF b.currentValue = {} THEN i.currentValue
                      ELSE {castNumber(The(b.currentValue))}]

\* PUT /investments/:id
UpdateInvestment(u, id, b) ==
    /\ Serve
    /\ IF ~ ( /\ optionalNotEmpty(b.name)
              /\ (b.type = {} \/ isInvType(b.type))
              /\ optionalIsFloatMin(b.investedAmount, 0)
              /\ optionalIsFloatMin(b.currentValue, 0)
              /\ (b.purchaseDate = {} \/ isISO8601(b.purchaseDate)) )
       THEN /\ Respond("investments.update", u, 400, {})
            /\ UNCHANGED investments
       ELSE IF ~ (id \in DOMAIN investments /\ investments[id].user = u)
       THEN /\ Respond("investments.update", u, 404, {})
            /\ UNCHANGED investments
       ELSE LET doc == invUpdated(investments[id], b)
            IN /\ investments' = [investments EXCEPT ![id] = doc]
               /\ Respond("investments.update", u, 200, {InvView(id, doc)})
    /\ UNCHANGED <<goals, nextGoalId, transactions, nextTxId, notifications,
                   nextNotifId, inflight, ledger, server, users, nextInvId>>

\* DELETE /investments/:id
DeleteInvestment(u, id) ==
    /\ Serve
    /\ IF id \in DOMAIN investments /\ investments[id].user = u
       THEN /\ investments' = [i \in DOMAIN investments \ {id} |-> investments[i]]
            /\ Respond("investments.delete", u, 200, {})
       ELSE /\ Respond("investments.delete", u, 404, {})
            /\ UNCHANGED investments
    /\ UNCHANGED <<goals, nextGoalId, transactions, nextTxId, notifications,
                   nextNotifId, inflight, ledger, server, users, nextInvId>>

(* ------------------- the owner of a stored record ---------------------- *)

\* the bodies sent to create and update: well-formed, without an owner field
\* and with one naming each user
OwnerTxBodies == {b \in TxBodies : b.category = {"Housing"} /\ b.amount = {Num(0)}}
OwnerInvBodies ==
    {b \in InvBodies : b.type = {"stock"} /\ b.purchaseDate = {Today}
                       /\ b.currentValue = {}}
OwnerTxIds == {NoId} \cup UNION {oldestOf(transactions, u) : u \in Users}
OwnerInvIds == {NoId} \cup UNION {oldestOf(investments, u) : u \in Users}

NextOwner ==
    \/ \E u \in Users, b \in OwnerTxBodies : CreateTransaction(u, b)
    \/ \E u \in Users, id \in OwnerTxIds, b \in OwnerTxBodies : UpdateTransaction(u, id, b)
    \/ \E u \in Users, b \in OwnerInvBodies : CreateInvestment(u, b)
    \/ \E u \in Users, id \in OwnerInvIds, b \in OwnerInvBodies :
          UpdateInvestment(u, id, b)

SpecOwner == Init /\ [][NextOwner]_vars

\* every record of the collection that is stored before and after the step
\* has the owner it had, and every record the step added is owned by the
\* caller of the step
OwnersKept(coll, collAfter) ==
    /\ \A id \in DOMAIN coll \cap DOMAIN collAfter : collAfter[id].user = coll[id].user
    /\ \A id \in DOMAIN collAfter \ DOMAIN coll : collAfter[id].user = res'.user

\* C26: the owner of a transaction or an investment never changes after
\* creation: whatever fields an update body carries, an owner field
\* included, the record is afterwards still owned by the user who created
\* it, and a record created is owned by the caller whatever owner its body
\* names.
C26_OwnerNeverChanges ==
    [][/\ OwnersKept(transactions, transactions')
       /\ OwnersKept(investments, investments')]_vars

(* ----------------------- creating investments ------------------------- *)

NextInvCreate ==
    \/ \E u \in Users, b \in InvBodies : CreateInvestment(u, b)
    \/ \E u \in Users, t \in InvTypeFilters : ListInvestments(u, t)

SpecInvCreate == Init /\ [][NextInvCreate]_vars

\* the body passes the route's validators: a name, a type of the validator's
\* list, investedAmount >= 0, and currentValue and purchaseDate absent or
\* well-formed
Accepted(b) ==
    /\ b.name # {} /\ The(b.name) # ""
    /\ b.type # {} /\ The(b.type) \in validatorTypes
    /\ b.investedAmount # {} /\ The(b.investedAmount).v >= 0
    /\ b.currentValue # {} => The(b.currentValue).v >= 0
    /\ b.purchaseDate # {} => The(b.purchaseDate) # BadDate

\* C27: every create-investment request is answered 201 with the investment
\* stored or 400 with nothing stored, never 500: a body the route's
\* validators accept (type within the validator's list, investedAmount >= 0)
\* is stored, and one with an unlisted type or a negative amount is answered
\* 400.
C27_CreateNever500 ==
    [][Answers("investments.create") =>
          /\ res'.status \in {201, 400}
          /\ res'.status = 400 => investments' = investments
          /\ res'.status = 201 =>
                /\ DOMAIN investments' = DOMAIN investments \cup {nextInvId}
                /\ investments'[nextInvId].user = res'.user
          /\ \A u \in Users, b \in InvBodies :
                CreateInvestment(u, b) =>
                   res'.status = IF Accepted(b) THEN 201 ELSE 400]_vars

(* ------------------- the retrying server entry point ------------------- *)

\* In this entry point server is [dbConnected, retryCount, attempts, phase]:
\* attempts counts the calls of connectDB(), and phase is "calling" while a
\* call is awaited, "timer" while setTimeout(connectWithRetry, 5000) is
\* pending, "connected" after a success and "gaveUp" once 'failed after
\* maximum retries' is logged.

maxRetries == 5

\* one retry too many
connectFailedMutantOneMore(s) ==
    IF s.retryCount <= maxRetries
    THEN [s EXCEPT !.retryCount = @ + 1, !.phase = "timer"]
    ELSE [s EXCEPT !.phase = "gaveUp"]

\* the else branch and the catch branch of connectWithRetry
connectFailed(s) ==
    IF s.retryCount < maxRetries
    THEN [s EXCEPT !.retryCount = @ + 1, !.phase = "timer"]
    ELSE [s EXCEPT !.phase = "gaveUp"]

\* connectDB() resolved with success
ConnectSucceeded ==
    /\ server.phase = "calling"
    /\ server' = [server EXCEPT !.dbConnected = TRUE, !.phase = "connected"]
    /\ UNCHANGED <<goals, nextGoalId, transactions, nextTxId, notifications,
                   nextNotifId, inflight, res, served, ledger, investments, users,
                   nextInvId>>

\* connectDB() resolved without success
ConnectReturnedFailure ==
    /\ server.phase = "calling"
    /\ server' = connectFailed(server)
    /\ UNCHANGED <<goals, nextGoalId, transactions, nextTxId, notifications,
                   nextNotifId, inflight, res, served, ledger, investments, users,
                   nextInvId>>

\* the await threw
ConnectThrew ==
    /\ server.phase = "calling"
    /\ server' = connectFailed(server)
    /\ UNCHANGED <<goals, nextGoalId, transactions, nextTxId, notifications,
                   nextNotifId, inflight, res, served, ledger, investments, users,
                   nextInvId>>

\* the timer fires and connectWithRetry calls connectDB() again
RetryTimerFires ==
    /\ server.phase = "timer"
    /\ server' = [server EXCEPT !.phase = "calling", !.attempts = @ + 1]
    /\ UNCHANGED <<goals, nextGoalId, transactions, nextTxId, notifications,
                   nextNotifId, inflight, res, served, ledger, investments, users,
                   nextInvId>>

\* the state after the module has run connectWithRetry()
InitRetry ==
    /\ goals = << >>
    /\ nextGoalId = 1
    /\ transactions = << >>
    /\ nextTxId = 1
    /\ notifications = << >>
    /\ nextNotifId = 1
    /\ inflight = {}
    /\ res = [route |-> "none", user |-> "A", status |-> 0, docs |-> {},
              query |-> NoBody, body |-> NoBody]
    /\ served = 0
    /\ ledger = << >>
    /\ investments = << >>
    /\ users = << >>
    /\ nextInvId = 1
    /\ server = [dbConnected |-> FALSE, retryCount |-> 0, attempts |-> 1,
                 phase |-> "calling"]

NextRetry ==
    \/ ConnectSucceeded
    \/ ConnectReturnedFailure
    \/ ConnectThrew
    \/ RetryTimerFires
    \/ \E u \in Users : requireDB("/api/goals", u, ListGoals(u))
    \/ \E u \in Users : requireDB("/api/goals", u, SeedGoals(u))
    \/ \E u \in Users : Health(u)

\* a pending connectDB() call settles and a pending timer fires
SpecRetry ==
    /\ InitRetry
    /\ [][NextRetry]_vars
    /\ WF_vars(ConnectSucceeded \/ ConnectReturnedFailure \/ ConnectThrew)
    /\ WF_vars(RetryTimerFires)

\* C28: connectDB() is called at most 6 times (one call and maxRetries = 5
\* retries) and retryCount never exceeds 5; the procedure always comes to a
\* stop, connected or having logged the failure after the last retry; once a
\* call succeeds no further call is made or scheduled; and dbConnected, once
\* true, stays true.
C28_RetryIsBounded ==
    /\ [](/\ server.retryCount <= maxRetries
          /\ server.attempts <= maxRetries + 1
          /\ server.attempts = server.retryCount + (IF server.phase = "timer" THEN 0 ELSE 1)
          /\ server.dbConnected <=> server.phase = "connected"
          /\ server.phase = "gaveUp" => server.retryCount = maxRetries)
    /\ [][/\ server.dbConnected => server' = server
          /\ server.phase = "gaveUp" => server' = server]_vars
    /\ <>(server.phase \in {"connected", "gaveUp"})

\* C28 witness: every call failed: the sixth call came after five retries
\* and the failure is logged, the database not connected.
C28_Witness ==
    /\ server.phase = "gaveUp"
    /\ server.retryCount = 5 /\ server.attempts = 6
    /\ ~ server.dbConnected
    /\ res.status = 503

(* ------------------------- seed-data of the auth router ---------------- *)

\* the sampleTransactions of POST /auth/seed-data: the month counted back from
\* the current one, and the day
seedDataTransactions ==
    << [type |-> "income",  amount |-> 50000, category |-> "Salary",        back |-> 0, day |-> 1],
       [type |-> "income",  amount |-> 5000,  category |-> "Freelance",     back |-> 0, day |-> 15],
       [type |-> "expense", amount |-> 15000, category |-> "Housing",       back |-> 0, day |-> 5],
       [type |-> "expense", amount |-> 5000,  category |-> "Food",          back |-> 0, day |-> 10],
       [type |-> "expense", amount |-> 3000,  category |-> "Food",          back |-> 0, day |-> 12],
       [type |-> "expense", amount |-> 2500,  category |-> "Transport",     back |-> 0, day |-> 8],
       [type |-> "expense", amount |-> 2000,  category |-> "Shopping",      back |-> 0, day |-> 18],
       [type |-> "expense", amount |-> 1500,  category |-> "Entertainment", back |-> 0, day |-> 20],
       [type |-> "expense", amount |-> 8000,  category |-> "Utilities",     back |-> 0, day |-> 25],
       [type |-> "expense", amount |-> 3000,  category |-> "Healthcare",    back |-> 0, day |-> 22],
       [type |-> "expense", amount |-> 12000, category |-> "Housing",       back |-> 1, day |-> 5],
       [type |-> "expense", amount |-> 4500,  category |-> "Food",          back |-> 1, day |-> 10],
       [type |-> "expense", amount |-> 2800,  category |-> "Transport",     back |-> 1, day |-> 8],
       [type |-> "expense", amount |-> 10000, category |-> "Housing",       back |-> 2, day |-> 5],
       [type |-> "expense", amount |-> 4000,  category |-> "Food",          back |-> 2, day |-> 10],
       [type |-> "expense", amount |-> 3500,  category |-> "Transport",     back |-> 2, day |-> 8],
       [type |-> "expense", amount |-> 14000, category |-> "Housing",       back |-> 3, day |-> 5],
       [type |-> "expense", amount |-> 5000,  category |-> "Food",          back |-> 3, day |-> 10] >>

\* the sampleGoals of POST /auth/seed-data
seedDataGoals ==
    << [targetAmount |-> 100000,  currentAmount |-> 45000,  status |-> "active"],
       [targetAmount |-> 50000,   currentAmount |-> 20000,  status |-> "active"],
       [targetAmount |-> 500000,  currentAmount |-> 120000, status |-> "active"],
       [targetAmount |-> 1000000, currentAmount |-> 300000, status |-> "active"] >>

\* the count taken of no document
existingTransactionsMutantNone(u) == 0

\* Transaction.countDocuments({ user: req.user.id })
existingTransactions(u) ==
    Cardinality({id \in DOMAIN transactions : transactions[id].user = u})

\* POST /auth/seed-data
SeedData(u) ==
    /\ Serve
    /\ IF existingTransactions(u) > 0
       THEN /\ RespondReport("auth.seedData", u, NoBody,
                             [message |-> "Data already exists"])
            /\ UNCHANGED <<transactions, nextTxId, goals, nextGoalId, ledger>>
       ELSE LET newTx == [k \in nextTxId .. nextTxId + Len(seedDataTransactions) - 1 |->
                            sampleDoc(u, seedDataTransactions[k - nextTxId + 1])]
                newGoals == [k \in nextGoalId .. nextGoalId + Len(seedDataGoals) - 1 |->
                               [user |-> u,
                                targetAmount |-> seedDataGoals[k - nextGoalId + 1].targetAmount,
                                currentAmount |-> seedDataGoals[k - nextGoalId + 1].currentAmount,
                                status |-> seedDataGoals[k - nextGoalId + 1].status]]
            IN /\ transactions' = newTx @@ transactions
               /\ nextTxId' = nextTxId + Len(seedDataTransactions)
               /\ goals' = newGoals @@ goals
               /\ ledger' = [k \in DOMAIN newGoals |-> Opened(newGoals[k].currentAmount)]
                               @@ ledger
               /\ nextGoalId' = nextGoalId + Len(seedDataGoals)
               /\ RespondReport("auth.seedData", u, NoBody,
                                [message |-> "Sample data created successfully",
                                 transactions |-> Len(seedDataTransactions),
                                 goals |-> Len(seedDataGoals)])
    /\ UNCHANGED <<notifications, nextNotifId, inflight, investments, server, users,
                   nextInvId>>

\* accounts that may already hold a transaction or a goal made through the
\* transaction and goal routes
InitSeedData ==
    /\ transactions \in {<< >>,
                         <<[user |-> "B", type |-> "income", amount |-> 50000,
                            category |-> "Salary", date |-> Today]>>}
    /\ nextTxId = Len(transactions) + 1
    /\ goals \in {<< >>,
                  <<[user |-> "A", targetAmount |-> 100000, currentAmount |-> 45000,
                     status |-> "active"]>>}
    /\ nextGoalId = Len(goals) + 1
    /\ ledger = [i \in DOMAIN goals |-> Opened(goals[i].currentAmount)]
    /\ investments = << >>
    /\ notifications = << >>
    /\ nextNotifId = 1
    /\ inflight = {}
    /\ res = [route |-> "none", user |-> "A", status |-> 0, docs |-> {},
              query |-> NoBody, body |-> NoBody]
    /\ served = 0
    /\ server = Connected
    /\ users = << >>
    /\ nextInvId = Len(investments) + 1

\* the bodies and ids the requests carry
SeedDataBodies == {b \in TxBodies : b.amount = {Num(5)} /\ b.type = {"expense"}}
SeedDataTxIds == {NoId} \cup UNION {oldestOf(transactions, u) : u \in Users}
SeedDataGoalIds == {NoId} \cup UNION {oldestOf(goals, u) : u \in Users}

NextSeedData ==
    \/ \E u \in Users : SeedData(u)
    \/ \E u \in Users, b \in SeedDataBodies : CreateTransaction(u, b)
    \/ \E u \in Users, id \in SeedDataTxIds : DeleteTransaction(u, id)
    \/ \E u \in Users, id \in SeedDataGoalIds : DeleteGoal(u, id)

SpecSeedData == InitSeedData /\ [][NextSeedData]_vars

(* ---------------------------- claim on seed-data ----------------------- *)

\* the ids of u's documents in a collection
OwnedBy(coll, u) == {id \in DOMAIN coll : coll[id].user = u}

\* every document stored before the step is stored unchanged after it
Retained(coll, collAfter) ==
    \A id \in DOMAIN coll : id \in DOMAIN collAfter /\ collAfter[id] = coll[id]

\* C29: a seed-data request of a user who already has a transaction inserts
\* nothing, so a second seed-data request right after a first by the same user
\* leaves every transaction and goal as the first left them; a request that
\* does insert adds exactly the sample transactions and the sample goals, all
\* owned by the caller, and leaves every stored document as it was.
C29_SeedDataIdempotent ==
    [][Answers("auth.seedData") =>
         LET u == res'.user
             newTx == DOMAIN transactions' \ DOMAIN transactions
             newGoals == DOMAIN goals' \ DOMAIN goals
         IN /\ Retained(transactions, transactions')
            /\ Retained(goals, goals')
            /\ (OwnedBy(transactions, u) # {} \/ (res.route = "auth.seedData" /\ res.user = u))
                  => newTx = {} /\ newGoals = {}
            /\ OwnedBy(transactions, u) = {}
                  => /\ Cardinality(newTx) = Len(seedDataTransactions)
                     /\ \A k \in DOMAIN seedDataTransactions :
                           \E id \in newTx :
                              transactions'[id] = sampleDoc(u, seedDataTransactions[k])
                     /\ Cardinality(newGoals) = Len(seedDataGoals)
                     /\ \A k \in DOMAIN seedDataGoals :
                           \E id \in newGoals :
                              /\ goals'[id].user = u
                              /\ goals'[id].targetAmount = seedDataGoals[k].targetAmount
                              /\ goals'[id].currentAmount = seedDataGoals[k].currentAmount
                              /\ goals'[id].status = "active"]_vars

\* C29 witness: a second seed-data request of A answered "Data already exists"
\* while A holds the 18 sample transactions and 4 sample goals of the first,
\* and B's transaction is still the only one B has.
C29_Witness ==
    /\ res.route = "auth.seedData" /\ res.user = "A"
    /\ res.body.message = "Data already exists"
    /\ served = 2
    /\ Cardinality(OwnedBy(transactions, "A")) = 18
    /\ Cardinality(OwnedBy(goals, "A")) = 4
    /\ Cardinality(OwnedBy(transactions, "B")) = 1

(* ------------------------ marking notifications read ------------------- *)

\* two users who each hold a read and an unread notification
InitMarkRead ==
    /\ notifications = <<[userId |-> "A", type |-> "goal", read |-> FALSE],
                         [userId |-> "B", type |-> "budget", read |-> FALSE],
                         [userId |-> "A", type |-> "system", read |-> TRUE],
                         [userId |-> "B", type |-> "system", read |-> TRUE]>>
    /\ nextNotifId = Len(notifications) + 1
    /\ goals = << >>
    /\ nextGoalId = 1
    /\ transactions = << >>
    /\ nextTxId = 1
    /\ inflight = {}
    /\ res = [route |-> "none", user |-> "A", status |-> 0, docs |-> {},
              query |-> NoBody, body |-> NoBody]
    /\ served = 0
    /\ ledger = << >>
    /\ server = Connected
    /\ investments = << >>
    /\ users = << >>
    /\ nextInvId = Len(investments) + 1

\* the bodies and ids the requests carry
MarkReadBodies == {b \in NotifBodies : b.title # {} /\ b.message # {} /\ b.type = {"goal"}}
MarkReadIds == {NoId} \cup DOMAIN notifications

NextMarkRead ==
    \/ \E u \in Users : UnreadCount(u)
    \/ \E u \in Users, b \in MarkReadBodies : CreateNotification(u, b)
    \/ \E u \in Users : SeedNotifications(u)
    \/ \E u \in Users, id \in MarkReadIds : MarkRead(u, id)
    \/ \E u \in Users : MarkAllRead(u)

SpecMarkRead == InitMarkRead /\ [][NextMarkRead]_vars

(* ------------------------ claim on marking read ------------------------ *)

\* the ids of u's unread notifications in a collection
Unread(coll, u) == {id \in DOMAIN coll : coll[id].userId = u /\ ~ coll[id].read}

\* C30: after a mark-all-read request of a user none of that user's
\* notifications is unread, an unread-count request of the same user that
\* follows it answers 0, and every other user's notification is as it was;
\* a mark-read or mark-all-read request removes no notification and leaves
\* every notification that was read read.
C30_MarkReadOnlyForward ==
    [][/\ Answers("notifications.markAllRead")
          => /\ Unread(notifications', res'.user) = {}
             /\ \A id \in DOMAIN notifications :
                   notifications[id].userId # res'.user
                      => /\ id \in DOMAIN notifications'
                         /\ notifications'[id] = notifications[id]
       /\ (Answers("notifications.unreadCount")
             /\ res.route = "notifications.markAllRead" /\ res.user = res'.user)
          => res'.body.count = 0
       /\ (Answers("notifications.markRead") \/ Answers("notifications.markAllRead"))
          => /\ DOMAIN notifications' = DOMAIN notifications
             /\ \A id \in DOMAIN notifications :
                   /\ notifications[id].read => notifications'[id].read
                   /\ notifications'[id].userId = notifications[id].userId]_vars

\* C30 witness: A asked for mark-all-read and then for the unread count, which
\* answered 0, while B still holds an unread notification.
C30_Witness ==
    /\ res.route = "notifications.unreadCount" /\ res.user = "A"
    /\ res.body.count = 0
    /\ served = 2
    /\ Cardinality(notifOf("A")) >= 2
    /\ Unread(notifications, "A") = {}
    /\ Unread(notifications, "B") # {}

====
